---- MODULE Spec2Model ----
(***************************************************************************)
(* State-machine model of the top-down shooter in src/: the Game           *)
(* orchestrator (game.py), the Player (player.py), Enemy (enemy.py),       *)
(* Bullet (bullet.py) and PowerUp (powerup.py) sprites, the constants of   *)
(* config.py and the main loop (main.py).                                  *)
(*                                                                         *)
(* What is abstracted.  Sprite rectangles are not tracked: which sprites   *)
(* leave the screen in a frame and which rectangles overlap in a frame are *)
(* inputs of the frame (they are decided by the random spawn column, the   *)
(* held movement keys and the per-frame speeds).  pygame.time.get_ticks()  *)
(* is the variable now: in a session it moves on by FrameStep with every   *)
(* PLAYING frame and an input event reads the value of the frame before    *)
(* it; PlayerSpec moves it between the calls on a Player.  Spec and        *)
(* OutlineSpec follow the sessions whose pauses take no time; PauseSpec    *)
(* follows the clock through a pause.  Drawing and sound change no game    *)
(* state.                                                                  *)
(*                                                                         *)
(* The specifications share the variables: Spec (the whole game),          *)
(* PlayerSpec (the methods of a Player called on their own), EffectSpec    *)
(* (shots and pickups of a Player with several effects), TickSpec (the     *)
(* Player under the frames of a session, with fairness), MoveSpec          *)
(* (Player.handle_input with the position), PassSpec (spawns and the       *)
(* collision pass), PhaseSpec (a PLAYING frame step by step), PauseSpec    *)
(* (the timers through a pause), PickupSpec (the collision pass with       *)
(* pickups on the screen), LiveSpec (a session that stays PLAYING, with    *)
(* fairness), OutlineSpec                                                  *)
(* (the game with the PLAYING frame in outline) and SaveSpec (the          *)
(* functions of save_manager.py, which the game never calls, on the file   *)
(* highscore.json).                                                        *)
(***************************************************************************)
EXTENDS Integers, Sequences, FiniteSets, TLC

(***************************************************************************)
(* Bounds of the exploration (not program constants).                      *)
(***************************************************************************)
MaxTime == 78000      \* the clock is explored up to this many ms
FrameStep == 1000     \* ms between the clock readings of two frames
MaxBullets == 2       \* bullets alive when K_SPACE is pressed
MaxStay == 2          \* frames an enemy stays on the screen after its spawn
MaxFlight == 2        \* frames a bullet stays on the screen
MaxFireTime == 3000   \* K_SPACE is pressed while the clock is at most this
MaxFiredTime == 5000  \* a session in which K_SPACE fired is explored up to here
MaxPauseTime == 1000  \* K_p is pressed in PLAYING while the clock is at most this
MaxBaseDifficulty == 1  \* sessions are started with base_difficulty up to this

(***************************************************************************)
(* config.py                                                               *)
(***************************************************************************)
BULLET_COOLDOWN == 300
ENEMY_SPAWN_INTERVAL == 2000
ENEMY_SPEED == 3
PLAYER_MAX_HP == 100
PLAYER_START_LIVES == 3
ENEMY_BASIC_HP == 20
INVINCIBILITY_DURATION == 2000
BULLET_SPEED == 10
SCREEN_WIDTH == 800
SCREEN_HEIGHT == 600
PLAYER_SPEED == 5
PLAYER_WIDTH == 40
PLAYER_HEIGHT == 40

\* The names config.py binds.  Reading any other attribute of the module
\* raises AttributeError.
ConfigAttrs ==
    { "SCREEN_WIDTH", "SCREEN_HEIGHT", "FPS", "PLAYER_SPEED", "BULLET_SPEED",
      "ENEMY_SPEED", "BULLET_COOLDOWN", "ENEMY_SPAWN_INTERVAL",
      "PLAYER_MAX_HP", "PLAYER_START_LIVES", "ENEMY_BASIC_HP",
      "PLAYER_WIDTH", "PLAYER_HEIGHT", "BULLET_WIDTH", "BULLET_HEIGHT",
      "ENEMY_WIDTH", "ENEMY_HEIGHT", "COLOR_BLACK", "COLOR_WHITE",
      "COLOR_RED", "COLOR_GREEN", "COLOR_BLUE", "COLOR_YELLOW", "COLOR_CYAN",
      "PLAYER_COLOR", "BULLET_COLOR", "ENEMY_COLOR",
      "INVINCIBILITY_DURATION" }

\* variant: config.py binds every name that is read from it
HasAttrAnyName(name) == TRUE
HasAttr(name) == name \in ConfigAttrs

(***************************************************************************)
(* Game.__init__ attributes that are never reassigned                      *)
(***************************************************************************)
wave_pause_duration == 3000
min_spawn_interval == 500
max_enemy_speed == 8
max_enemy_hp == 100
MIN_DIFFICULTY == 1
MAX_DIFFICULTY == 10
CONTACT_DAMAGE == 10
BULLET_DAMAGE == 10
menu_options == <<"Play", "Settings", "Quit">>

POWERUP_TYPES == <<"HEALTH", "LIFE", "RAPID_FIRE", "DOUBLE_SHOT", "TRIPLE_SHOT">>
TimedKinds == {"RAPID_FIRE", "DOUBLE_SHOT", "TRIPLE_SHOT"}

VARIABLES
    process,          \* "RUNNING", "EXITED" (main loop left) or "CRASHED"
    now,              \* pygame.time.get_ticks()
    state,            \* Game.state
    menu_selected,    \* Game.menu_selected (0-based)
    base_difficulty,  \* Game.base_difficulty
    difficulty_level, \* Game.difficulty_level
    player,           \* Game.player: NoPlayer or a Player record
    bullets,          \* Game.bullets, in group order
    enemies,          \* Game.enemies, in group order
    powerups,         \* Game.powerups, in group order
    score,            \* Game.score
    best_score,       \* Game.best_score
    wave,             \* Game.wave
    enemies_in_wave,  \* Game.enemies_in_wave
    enemies_spawned,  \* Game.enemies_spawned
    wave_complete,    \* Game.wave_complete
    wave_pause_timer, \* Game.wave_pause_timer
    last_enemy_spawn, \* Game.last_enemy_spawn
    effects,          \* Game.effects, in group order
    highscore_file,   \* the file highscore.json next to the modules
    frame,            \* history: what the last handler did
    pc                \* where Game.update stands: "events" between two calls

vars == << process, now, state, menu_selected, base_difficulty,
           difficulty_level, player, bullets, enemies, powerups, score,
           best_score, wave, enemies_in_wave, enemies_spawned, wave_complete,
           wave_pause_timer, last_enemy_spawn, effects, highscore_file,
           frame, pc >>

gameVars == << state, menu_selected, base_difficulty, difficulty_level,
               bullets, enemies, powerups, score, best_score, wave,
               enemies_in_wave, enemies_spawned, wave_complete,
               wave_pause_timer, last_enemy_spawn, effects >>

Min2(a, b) == IF a <= b THEN a ELSE b
Max2(a, b) == IF a >= b THEN a ELSE b
MinOf(S) == CHOOSE x \in S : \A y \in S : x <= y

(***************************************************************************)
(* Player (player.py)                                                      *)
(***************************************************************************)
NoPlayer == [absent |-> TRUE]

\* Player.__init__
NewPlayer ==
    [ hp |-> PLAYER_MAX_HP,
      max_hp |-> PLAYER_MAX_HP,
      lives |-> PLAYER_START_LIVES,
      last_shot_time |-> 0,
      shoot_cooldown |-> BULLET_COOLDOWN,
      is_invincible |-> FALSE,
      invincibility_timer |-> 0,
      active_effects |-> {} ]

\* variant of Player.is_alive: only the lives are tested, and with >=
IsAliveLivesOnly(p) == p.lives >= 0
\* Player.is_alive
IsAlive(p) == p.lives > 0 /\ p.hp > 0

\* variant of Player.take_damage: the test of is_invincible is missing
PlayerTakeDamageNoGuard(p, damage, t) ==
    LET hp1 == p.hp - damage
        lives1 == IF hp1 <= 0 THEN p.lives - 1 ELSE p.lives
        hp2 == IF hp1 <= 0 /\ lives1 > 0 THEN p.max_hp ELSE hp1
    IN [p EXCEPT !.hp = hp2, !.lives = lives1,
                 !.is_invincible = TRUE, !.invincibility_timer = t]
\* variant of Player.take_damage: hp is set back to max_hp whether or not
\* lives remain
PlayerTakeDamageAlwaysRefill(p, damage, t) ==
    IF ~p.is_invincible
    THEN LET hp1 == p.hp - damage
             lives1 == IF hp1 <= 0 THEN p.lives - 1 ELSE p.lives
             hp2 == IF hp1 <= 0 THEN p.max_hp ELSE hp1
         IN [p EXCEPT !.hp = hp2, !.lives = lives1,
                      !.is_invincible = TRUE, !.invincibility_timer = t]
    ELSE p
\* Player.take_damage
PlayerTakeDamage(p, damage, t) ==
    IF ~p.is_invincible
    THEN LET hp1 == p.hp - damage
             lives1 == IF hp1 <= 0 THEN p.lives - 1 ELSE p.lives
             hp2 == IF hp1 <= 0 /\ lives1 > 0 THEN p.max_hp ELSE hp1
         IN [p EXCEPT !.hp = hp2, !.lives = lives1,
                      !.is_invincible = TRUE, !.invincibility_timer = t]
    ELSE p

\* "name" in self.active_effects; active_effects is the set of
\* <<name, end_time>> items of the dict (one item per name)
HasEffect(p, name) == \E e \in p.active_effects : e[1] = name

\* Bullet.__init__ as called by Player.shoot: x offset from rect.centerx;
\* frames counts the calls of Bullet.update on the object
\* speed is the third argument of the call
Bullet(offset) ==
    [frames |-> 0, offset |-> offset, speed |-> 0 - BULLET_SPEED,
     damage |-> BULLET_DAMAGE]

\* variant of Player.shoot: the cooldown test is <= and no effect is looked at
ShootInclusiveCooldown(p, t) ==
    IF t - p.last_shot_time <= p.shoot_cooldown
    THEN [p |-> p, bullets |-> << >>]
    ELSE [p |-> [p EXCEPT !.last_shot_time = t], bullets |-> <<Bullet(0)>>]
\* variant of Player.shoot: DOUBLE_SHOT adds one bullet, and it is looked at
\* before TRIPLE_SHOT
ShootDoubleAddsOne(p, t) ==
    IF t - p.last_shot_time < p.shoot_cooldown
    THEN [p |-> p, bullets |-> << >>]
    ELSE LET has_double == HasEffect(p, "DOUBLE_SHOT")
             has_triple == HasEffect(p, "TRIPLE_SHOT")
             extra == IF has_double THEN <<Bullet(10)>>
                      ELSE IF has_triple THEN <<Bullet(-12), Bullet(12)>>
                      ELSE << >>
         IN [p |-> [p EXCEPT !.last_shot_time = t],
             bullets |-> <<Bullet(0)>> \o extra]
\* Player.shoot: [p |-> the player afterwards, bullets |-> the list
\* returned (<< >> stands for None)]
Shoot(p, t) ==
    IF t - p.last_shot_time < p.shoot_cooldown
    THEN [p |-> p, bullets |-> << >>]
    ELSE LET has_double == HasEffect(p, "DOUBLE_SHOT")
             has_triple == HasEffect(p, "TRIPLE_SHOT")
             extra == IF has_triple THEN <<Bullet(-12), Bullet(12)>>
                      ELSE IF has_double THEN <<Bullet(-10), Bullet(10)>>
                      ELSE << >>
         IN [p |-> [p EXCEPT !.last_shot_time = t],
             bullets |-> <<Bullet(0)>> \o extra]

\* variant of Player.update: the invincibility ends only after more than
\* INVINCIBILITY_DURATION
PlayerUpdateStrictExpiry(p, t) ==
    LET expireInv == p.is_invincible
                     /\ t - p.invincibility_timer > INVINCIBILITY_DURATION
        p1 == IF expireInv
              THEN [p EXCEPT !.is_invincible = FALSE,
                             !.invincibility_timer = 0]
              ELSE p
        p2 == [p1 EXCEPT !.active_effects =
                         { e \in p1.active_effects : ~(t >= e[2]) }]
    IN IF HasEffect(p2, "RAPID_FIRE")
       THEN [p |-> p2, raised |-> ~HasAttr("RAPID_FIRE_COOLDOWN")]
       ELSE [p |-> [p2 EXCEPT !.shoot_cooldown = BULLET_COOLDOWN],
             raised |-> FALSE]
\* Player.update: [p |-> the player afterwards, raised |-> TRUE when the
\* read of config.RAPID_FIRE_COOLDOWN raises AttributeError]
PlayerUpdate(p, t) ==
    LET expireInv == p.is_invincible
                     /\ t - p.invincibility_timer >= INVINCIBILITY_DURATION
        p1 == IF expireInv
              THEN [p EXCEPT !.is_invincible = FALSE,
                             !.invincibility_timer = 0]
              ELSE p
        p2 == [p1 EXCEPT !.active_effects =
                         { e \in p1.active_effects : ~(t >= e[2]) }]
    IN IF HasEffect(p2, "RAPID_FIRE")
       THEN [p |-> p2, raised |-> ~HasAttr("RAPID_FIRE_COOLDOWN")]
       ELSE [p |-> [p2 EXCEPT !.shoot_cooldown = BULLET_COOLDOWN],
             raised |-> FALSE]

(***************************************************************************)
(* PowerUp (powerup.py)                                                    *)
(***************************************************************************)
\* PowerUp.__init__: reads config.POWERUP_SPEED, POWERUP_WIDTH and
\* POWERUP_HEIGHT; TRUE when the constructor raises AttributeError
PowerUpInitRaises ==
    ~(HasAttr("POWERUP_SPEED") /\ HasAttr("POWERUP_WIDTH")
      /\ HasAttr("POWERUP_HEIGHT"))

\* PowerUp.apply_effect
ApplyEffect(kind, p, t) ==
    IF kind = "HEALTH"
    THEN [p |-> [p EXCEPT !.hp = Min2(p.max_hp, p.hp + PLAYER_MAX_HP \div 2)],
          raised |-> FALSE]
    ELSE IF kind = "LIFE"
    THEN [p |-> [p EXCEPT !.lives = p.lives + 1], raised |-> FALSE]
    ELSE IF kind \in TimedKinds
    THEN [p |-> p, raised |-> ~HasAttr("POWERUP_DURATION")]
    ELSE [p |-> p, raised |-> FALSE]

(***************************************************************************)
(* Enemy (enemy.py)                                                        *)
(***************************************************************************)
\* Enemy.__init__: points by type
EnemyPoints(enemy_type) ==
    IF enemy_type = "basic" THEN 10
    ELSE IF enemy_type = "fast" THEN 15
    ELSE IF enemy_type = "heavy" THEN 25
    ELSE IF enemy_type = "tank" THEN 50
    ELSE 10

\* Enemy.__init__ as called by spawn_enemy; frames counts the calls of
\* Enemy.update on the object (its y is -ENEMY_HEIGHT + frames * speed)
Enemy(speed, hp, enemy_type) ==
    [ frames |-> 0, speed |-> speed, max_hp |-> hp, hp |-> hp,
      enemy_type |-> enemy_type, points |-> EnemyPoints(enemy_type) ]

\* variant of Enemy.take_damage: every hit is reported lethal
EnemyTakeDamageAlwaysDead(e, damage) ==
    [e |-> [e EXCEPT !.hp = e.hp - damage], dead |-> TRUE]
\* Enemy.take_damage: [e |-> the enemy afterwards, dead |-> the value
\* returned; when dead, self.kill() has removed it from every group]
EnemyTakeDamage(e, damage) ==
    LET hp1 == e.hp - damage
    IN [e |-> [e EXCEPT !.hp = hp1], dead |-> hp1 <= 0]

(***************************************************************************)
(* Helpers on pygame groups (ordered collections of sprites)               *)
(***************************************************************************)
\* the members of group s at the positions in S, in group order
Keep(s, S) ==
    LET F[i \in 0..Len(s)] ==
            IF i = 0 THEN << >>
            ELSE IF i \in S THEN Append(F[i - 1], s[i]) ELSE F[i - 1]
    IN F[Len(s)]

NoShot == [t |-> 0, last |-> 0, cooldown |-> 0, n |-> 0, bullets |-> << >>]

\* what a call of save_manager logs: the argument of save_high_score and
\* whether it wrote the file; whether load_high_score raised, and the value
\* and the Python type of what it returned
NoIo == [arg |-> 0, wrote |-> FALSE, raised |-> FALSE, ret |-> 0,
         type |-> "none"]

\* what a handler logs: op names it; hits is the log of the bullet-enemy
\* step, contact the enemies that overlapped the player in the player-enemy
\* step, survived those of them still in Game.enemies when the handler
\* returns, damaged whether Player.take_damage was called, shot the
\* arguments and the result of Player.shoot, prev the Player as it was when
\* a method of the Player was called on its own, alive the value of
\* len(Game.enemies) at the wave step of a frame, io the log of a call of
\* save_manager, kind the kind of the power-up whose apply_effect was called
NoFrame ==
    [op |-> "none", hits |-> << >>, contact |-> {}, survived |-> {},
     damaged |-> FALSE, shot |-> NoShot, prev |-> [absent |-> TRUE],
     alive |-> 0, io |-> NoIo, kind |-> ""]

\* the visual effects of explosion.py as Game.effects holds them: the class,
\* start_time = pygame.time.get_ticks() at construction, and the duration
Explosion(t) == [class |-> "Explosion", start_time |-> t, duration |-> 300]
HitEffect(t) == [class |-> "HitEffect", start_time |-> t, duration |-> 120]
PickupEffect(t) ==
    [class |-> "PickupEffect", start_time |-> t, duration |-> 200]

\* Game.effects.update() at time t: an effect whose duration has elapsed
\* removes itself
RECURSIVE EffectsUpdate(_, _)
EffectsUpdate(fx, t) ==
    IF fx = << >> THEN << >>
    ELSE LET rest == EffectsUpdate(Tail(fx), t)
         IN IF t - Head(fx).start_time >= Head(fx).duration THEN rest
            ELSE << Head(fx) >> \o rest

\* highscore.json: whether the path exists, whether open() for reading and
\* for writing succeed, and the text as a sequence of JSON tokens
MissingFile ==
    [exists |-> FALSE, readable |-> TRUE, writable |-> TRUE, text |-> << >>]

(***************************************************************************)
(* Spawning policy (game.py)                                               *)
(***************************************************************************)
\* Game._choose_enemy_type: the values random.choices can return (every
\* candidate has a positive weight)
ChooseEnemyType(level, w) ==
    IF level <= 2 /\ w < 3
    THEN {"basic"}
    ELSE {"basic"}
         \cup (IF level >= 2 \/ w >= 2 THEN {"fast"} ELSE {})
         \cup (IF level >= 3 \/ w >= 4 THEN {"heavy"} ELSE {})
         \cup (IF level >= 5 \/ w >= 6 THEN {"tank"} ELSE {})

\* Game._get_enemy_multipliers, in tenths: <<speed_mult, hp_mult>>
GetEnemyMultipliers(enemy_type) ==
    IF enemy_type = "fast" THEN <<18, 6>>
    ELSE IF enemy_type = "heavy" THEN <<7, 20>>
    ELSE IF enemy_type = "tank" THEN <<5, 30>>
    ELSE <<10, 10>>

\* int(base * mult) of Game._update_waves_and_difficulty; the float product
\* truncates to the same integer as the exact product for every base the
\* game computes
IntMul(base, tenths) == (base * tenths) \div 10

\* spawn_interval of Game._update_waves_and_difficulty
SpawnInterval(level) ==
    Max2(ENEMY_SPAWN_INTERVAL - (level - 1) * 150, min_spawn_interval)

\* variant of enemy_speed: base_speed is not capped before the multiplier
EnemySpeedNoBaseCap(level, enemy_type) ==
    LET base_speed == ENEMY_SPEED + (level - 1)
    IN Min2(IntMul(base_speed, GetEnemyMultipliers(enemy_type)[1]),
            max_enemy_speed)
\* enemy_speed and enemy_hp of Game._update_waves_and_difficulty
EnemySpeed(level, enemy_type) ==
    LET base_speed == Min2(ENEMY_SPEED + (level - 1), max_enemy_speed)
    IN Min2(IntMul(base_speed, GetEnemyMultipliers(enemy_type)[1]),
            max_enemy_speed)

EnemyHp(level, enemy_type) ==
    LET base_hp == Min2(ENEMY_BASIC_HP + (level - 1) * 5, max_enemy_hp)
    IN Min2(IntMul(base_hp, GetEnemyMultipliers(enemy_type)[2]), max_enemy_hp)

\* the wave fields of the Game
WaveState ==
    [ wave |-> wave, difficulty_level |-> difficulty_level,
      enemies_in_wave |-> enemies_in_wave, enemies_spawned |-> enemies_spawned,
      wave_complete |-> wave_complete, wave_pause_timer |-> wave_pause_timer,
      last_enemy_spawn |-> last_enemy_spawn ]

\* variant of the completion test: len(self.enemies) == 0 is left out
WaveStepIgnoresHostiles(w, t, nEnemies) ==
    LET w1 == IF ~w.wave_complete
                 /\ w.enemies_spawned >= w.enemies_in_wave
              THEN [w EXCEPT !.wave_complete = TRUE, !.wave_pause_timer = t]
              ELSE w
    IN IF w1.wave_complete /\ t - w1.wave_pause_timer >= wave_pause_duration
       THEN [w1 EXCEPT !.wave = w1.wave + 1,
                       !.enemies_in_wave = 5 + ((w1.wave + 1) - 1) * 2,
                       !.enemies_spawned = 0,
                       !.wave_complete = FALSE,
                       !.difficulty_level =
                           Min2(base_difficulty + (w1.wave + 1) \div 3,
                                MAX_DIFFICULTY),
                       !.last_enemy_spawn = t]
       ELSE w1
\* variant of the end-of-pause step: the pause must be longer than
\* wave_pause_duration
WaveStepStrictPause(w, t, nEnemies) ==
    LET w1 == IF ~w.wave_complete
                 /\ w.enemies_spawned >= w.enemies_in_wave
                 /\ nEnemies = 0
              THEN [w EXCEPT !.wave_complete = TRUE, !.wave_pause_timer = t]
              ELSE w
    IN IF w1.wave_complete /\ t - w1.wave_pause_timer > wave_pause_duration
       THEN [w1 EXCEPT !.wave = w1.wave + 1,
                       !.enemies_in_wave = 5 + ((w1.wave + 1) - 1) * 2,
                       !.enemies_spawned = 0,
                       !.wave_complete = FALSE,
                       !.difficulty_level =
                           Min2(base_difficulty + (w1.wave + 1) \div 3,
                                MAX_DIFFICULTY),
                       !.last_enemy_spawn = t]
       ELSE w1
\* variant of the end-of-pause step: the target is computed as 5 + wave * 2
WaveStepTargetFromWave(w, t, nEnemies) ==
    LET w1 == IF ~w.wave_complete
                 /\ w.enemies_spawned >= w.enemies_in_wave
                 /\ nEnemies = 0
              THEN [w EXCEPT !.wave_complete = TRUE, !.wave_pause_timer = t]
              ELSE w
    IN IF w1.wave_complete /\ t - w1.wave_pause_timer >= wave_pause_duration
       THEN [w1 EXCEPT !.wave = w1.wave + 1,
                       !.enemies_in_wave = 5 + (w1.wave + 1) * 2,
                       !.enemies_spawned = 0,
                       !.wave_complete = FALSE,
                       !.difficulty_level =
                           Min2(base_difficulty + (w1.wave + 1) \div 3,
                                MAX_DIFFICULTY),
                       !.last_enemy_spawn = t]
       ELSE w1
\* Game._update_waves_and_difficulty up to the spawn test: the wave fields
\* after the completion test and the end-of-pause step
WaveStep(w, t, nEnemies) ==
    LET w1 == IF ~w.wave_complete
                 /\ w.enemies_spawned >= w.enemies_in_wave
                 /\ nEnemies = 0
              THEN [w EXCEPT !.wave_complete = TRUE, !.wave_pause_timer = t]
              ELSE w
    IN IF w1.wave_complete /\ t - w1.wave_pause_timer >= wave_pause_duration
       THEN [w1 EXCEPT !.wave = w1.wave + 1,
                       !.enemies_in_wave = 5 + ((w1.wave + 1) - 1) * 2,
                       !.enemies_spawned = 0,
                       !.wave_complete = FALSE,
                       !.difficulty_level =
                           Min2(base_difficulty + (w1.wave + 1) \div 3,
                                MAX_DIFFICULTY),
                       !.last_enemy_spawn = t]
       ELSE w1

\* variant of the spawn test: the target of the wave is not tested
SpawnDueNoTarget(w, t) ==
    /\ ~w.wave_complete
    /\ t - w.last_enemy_spawn >= SpawnInterval(w.difficulty_level)
\* variant of the spawn test: the time since the last spawn is not tested
SpawnDueNoInterval(w, t) ==
    /\ ~w.wave_complete
    /\ w.enemies_spawned < w.enemies_in_wave
\* the spawn test of Game._update_waves_and_difficulty
SpawnDue(w, t) ==
    /\ ~w.wave_complete
    /\ w.enemies_spawned < w.enemies_in_wave
    /\ t - w.last_enemy_spawn >= SpawnInterval(w.difficulty_level)

(***************************************************************************)
(* Collision resolution (game.py)                                          *)
(*                                                                         *)
(* The pass works on a record c:                                           *)
(*   obj     the Enemy objects that were in Game.enemies when groupcollide *)
(*           ran, in group order (an object keeps its hp after kill())     *)
(*   inGrp   the positions of obj that are still in Game.enemies           *)
(*   bIn     the positions of the bullets that are still in Game.bullets   *)
(*   pw      Game.powerups                                                 *)
(*   fx      Game.effects                                                  *)
(*   p       the Player                                                    *)
(*   score, rolls (drop rolls made), raised (AttributeError was raised)    *)
(*   hits, contact, survived, damaged: the log of the pass                 *)
(***************************************************************************)
\* Game._maybe_spawn_powerup for the enemy at position j; drop is the outcome
\* of the roll random.random() <= POWERUP_CHANCE and kind the result of
\* PowerUp.random_kind().  random.random() is evaluated before the read of
\* config.POWERUP_CHANCE.
MaybeSpawnPowerup(c, j, drop, kind) ==
    LET c1 == [c EXCEPT !.rolls = @ + 1]
    IN IF ~HasAttr("POWERUP_CHANCE") THEN [c1 EXCEPT !.raised = TRUE]
       ELSE IF ~drop THEN c1
       ELSE IF PowerUpInitRaises THEN [c1 EXCEPT !.raised = TRUE]
       ELSE [c1 EXCEPT !.pw = Append(@, kind)]

\* the body of "for bullet, enemies in bullet_hits.items()" for the bullet at
\* position i whose list of colliding enemies is the set of positions L
\* (non-empty, in group order): only the first enemy of the list is examined
HitFirst(c, i, L, drop, kind, t) ==
    LET j == MinOf(L)
        before == c.obj[j]
        r == EnemyTakeDamage(before, c.bullets[i].damage)
        \* enemy.take_damage: hp changes, kill() when dead
        c1 == [c EXCEPT !.obj[j] = r.e,
                        !.inGrp = IF r.dead THEN @ \ {j} ELSE @]
        \* if enemy.take_damage(...): score, drop roll
        c2 == IF r.dead
              THEN MaybeSpawnPowerup(
                       [c1 EXCEPT !.score = @ + before.points],
                       j, drop, kind)
              ELSE c1
        \* log: the object examined (its position in obj), its hp before
        \* and after, what take_damage returned, whether it was in
        \* Game.enemies before and after, the score and rolls it caused,
        \* whether bullet.kill() was reached
        entry == [pos |-> j, before |-> before.hp, after |-> r.e.hp,
                  dead |-> r.dead, points |-> before.points,
                  wasIn |-> j \in c.inGrp, stillIn |-> j \in c1.inGrp,
                  gain |-> c2.score - c.score,
                  rolls |-> c2.rolls - c.rolls,
                  consumed |-> ~c2.raised]
        c3 == [c2 EXCEPT !.hits = Append(@, entry)]
    IN IF c3.raised THEN c3
       ELSE \* explosion when dead, hit effect, bullet.kill(), break
            [c3 EXCEPT !.fx = (IF r.dead THEN Append(@, Explosion(t)) ELSE @)
                                 \o << HitEffect(t) >>,
                       !.bIn = @ \ {i}]

\* the loop over bullet_hits = groupcollide(bullets, enemies, False, False):
\* overlap[i] is the set of positions of the enemies whose rectangle overlaps
\* that of bullet i; a bullet with no overlap is no key of the dict
RECURSIVE BulletPass(_, _, _, _, _, _)
BulletPass(c, i, overlap, drop, kind, t) ==
    IF i > Len(c.bullets) \/ c.raised THEN c
    ELSE IF overlap[i] = {} THEN BulletPass(c, i + 1, overlap, drop, kind, t)
    ELSE BulletPass(HitFirst(c, i, overlap[i], drop, kind, t),
                    i + 1, overlap, drop, kind, t)

\* variant of the player-enemy step: the damage is 10 for each enemy hit
ContactPassDamagePerEnemy(c, touch, t) ==
    IF ~c.p.is_invincible
    THEN LET enemy_hits == touch \cap c.inGrp
         IN [c EXCEPT !.inGrp = @ \ enemy_hits,
                      !.p = IF enemy_hits # {}
                            THEN PlayerTakeDamage(
                                     @, CONTACT_DAMAGE * Cardinality(enemy_hits),
                                     t)
                            ELSE @,
                      !.damaged = enemy_hits # {}]
    ELSE c
\* "Игрок и враги": spritecollide(player, enemies, True) and take_damage(10),
\* run only when the player is not invincible; touch is the set of positions
\* of the enemies whose rectangle overlaps the player's.  Sets p in c.
ContactPass(c, touch, t) ==
    IF ~c.p.is_invincible
    THEN LET enemy_hits == touch \cap c.inGrp
         IN [c EXCEPT !.inGrp = @ \ enemy_hits,
                      !.p = IF enemy_hits # {}
                            THEN PlayerTakeDamage(@, CONTACT_DAMAGE, t) ELSE @,
                      !.damaged = enemy_hits # {}]
    ELSE c

\* "Игрок и бонусы": spritecollide(player, powerups, True) removes every
\* overlapping power-up first, then apply_effect runs on each in group order;
\* picked is the set of positions of the overlapping power-ups
RECURSIVE ApplyPicked(_, _, _, _)
ApplyPicked(c, hit, i, t) ==
    IF i > Len(hit) \/ c.raised THEN c
    ELSE LET r == ApplyEffect(hit[i], c.p, t)
         IN ApplyPicked([c EXCEPT !.p = r.p, !.raised = r.raised,
                                  !.fx = IF r.raised THEN @
                                         ELSE Append(@, PickupEffect(t))],
                        hit, i + 1, t)

PickupPass(c, picked, t) ==
    LET powerup_hits == Keep(c.pw, picked)
        c1 == [c EXCEPT !.pw = Keep(c.pw, (1..Len(c.pw)) \ picked)]
    IN ApplyPicked(c1, powerup_hits, 1, t)

\* Game._handle_collisions; contact logs the positions of the enemies of
\* Game.enemies that overlap the player when the player-enemy step is reached
HandleCollisions(c, overlap, touch, picked, drop, kind, t) ==
    LET c1 == BulletPass(c, 1, overlap, drop, kind, t)
        c2 == IF c1.raised THEN c1 ELSE ContactPass(c1, touch, t)
        c3 == IF c2.raised THEN c2 ELSE PickupPass(c2, picked, t)
        contact == IF c1.raised THEN {} ELSE touch \cap c1.inGrp
    IN [c3 EXCEPT !.contact = contact, !.survived = contact \cap c3.inGrp]

(***************************************************************************)
(* The Game (game.py) driven by the main loop (main.py)                    *)
(***************************************************************************)
\* Game.__init__; the clock starts with pygame.init()
Init ==
    /\ process = "RUNNING"
    /\ now = 0
    /\ state = "MENU"
    /\ menu_selected = 0
    /\ base_difficulty = 1
    /\ difficulty_level = 1
    /\ player = NoPlayer
    /\ bullets = << >>
    /\ enemies = << >>
    /\ powerups = << >>
    /\ effects = << >>
    /\ highscore_file = MissingFile
    /\ score = 0
    /\ best_score = 0
    /\ wave = 1
    /\ enemies_in_wave = 5
    /\ enemies_spawned = 0
    /\ wave_complete = FALSE
    /\ wave_pause_timer = 0
    /\ last_enemy_spawn = 0
    /\ frame = NoFrame
    /\ pc = "events"

\* main() leaves its loop on pygame.QUIT and the process ends: the objects
\* of the game no longer exist
Exit ==
    /\ process' = "EXITED"
    /\ now' = 0
    /\ state' = "MENU"
    /\ menu_selected' = 0
    /\ base_difficulty' = 1
    /\ difficulty_level' = 1
    /\ player' = NoPlayer
    /\ bullets' = << >>
    /\ enemies' = << >>
    /\ powerups' = << >>
    /\ effects' = << >>
    /\ score' = 0
    /\ best_score' = 0
    /\ wave' = 1
    /\ enemies_in_wave' = 5
    /\ enemies_spawned' = 0
    /\ wave_complete' = FALSE
    /\ wave_pause_timer' = 0
    /\ last_enemy_spawn' = 0
    /\ UNCHANGED highscore_file

\* variant of Game.start_game: self.bullets.empty() is left out
StartGameKeepsBullets ==
    /\ enemies' = << >>
    /\ powerups' = << >>
    /\ effects' = << >>
    /\ player' = NewPlayer
    /\ score' = 0
    /\ wave' = 1
    /\ difficulty_level' = base_difficulty
    /\ enemies_in_wave' = 5
    /\ enemies_spawned' = 0
    /\ wave_complete' = FALSE
    /\ wave_pause_timer' = 0
    /\ last_enemy_spawn' = now
    /\ state' = "PLAYING"
    /\ pc' = pc
    /\ frame' = [NoFrame EXCEPT !.op = "start"]
    /\ UNCHANGED << process, now, menu_selected, base_difficulty, bullets,
                    best_score, highscore_file >>
\* variant of Game.start_game: best_score is reset with the score
StartGameResetsBest ==
    /\ bullets' = << >>
    /\ enemies' = << >>
    /\ powerups' = << >>
    /\ effects' = << >>
    /\ player' = NewPlayer
    /\ score' = 0
    /\ best_score' = 0
    /\ wave' = 1
    /\ difficulty_level' = base_difficulty
    /\ enemies_in_wave' = 5
    /\ enemies_spawned' = 0
    /\ wave_complete' = FALSE
    /\ wave_pause_timer' = 0
    /\ last_enemy_spawn' = now
    /\ state' = "PLAYING"
    /\ pc' = pc
    /\ frame' = [NoFrame EXCEPT !.op = "start"]
    /\ UNCHANGED << process, now, menu_selected, base_difficulty,
                    highscore_file >>
\* Game.start_game
StartGame ==
    /\ bullets' = << >>
    /\ enemies' = << >>
    /\ powerups' = << >>
    /\ effects' = << >>
    /\ player' = NewPlayer
    /\ score' = 0
    /\ wave' = 1
    /\ difficulty_level' = base_difficulty
    /\ enemies_in_wave' = 5
    /\ enemies_spawned' = 0
    /\ wave_complete' = FALSE
    /\ wave_pause_timer' = 0
    /\ last_enemy_spawn' = now
    /\ state' = "PLAYING"
    /\ pc' = pc
    /\ frame' = [NoFrame EXCEPT !.op = "start"]
    /\ UNCHANGED << process, now, menu_selected, base_difficulty, best_score,
                    highscore_file >>

\* Game.handle_menu_input: K_UP / K_w (d = -1), K_DOWN / K_s (d = 1)
MenuMove(d) ==
    /\ process = "RUNNING" /\ state = "MENU"
    /\ menu_selected' = (menu_selected + d) % Len(menu_options)
    /\ pc' = pc
    /\ frame' = NoFrame
    /\ UNCHANGED << process, now, state, base_difficulty, difficulty_level,
                    player, bullets, enemies, powerups, effects, score,
                    best_score, wave, enemies_in_wave, enemies_spawned,
                    wave_complete, wave_pause_timer, last_enemy_spawn,
                    highscore_file >>

\* Game.handle_menu_input, K_RETURN / K_SPACE: Game._execute_menu_option
ExecutePlay ==
    /\ process = "RUNNING" /\ state = "MENU"
    /\ menu_options[menu_selected + 1] = "Play"
    /\ base_difficulty <= MaxBaseDifficulty
    /\ StartGame

ExecuteSettings ==
    /\ process = "RUNNING" /\ state = "MENU"
    /\ menu_options[menu_selected + 1] = "Settings"
    /\ state' = "SETTINGS"
    /\ pc' = pc
    /\ frame' = NoFrame
    /\ UNCHANGED << process, now, menu_selected, base_difficulty,
                    difficulty_level, player, bullets, enemies, powerups,
                    effects, score, best_score, wave, enemies_in_wave,
                    enemies_spawned, wave_complete, wave_pause_timer,
                    last_enemy_spawn, highscore_file >>

\* Game._execute_menu_option "Quit" and K_ESCAPE in the menu post
\* pygame.QUIT, on which main() leaves its loop
ExecuteQuit ==
    /\ process = "RUNNING" /\ state = "MENU"
    /\ menu_options[menu_selected + 1] = "Quit"
    /\ Exit
    /\ pc' = pc
    /\ frame' = [NoFrame EXCEPT !.op = "quit"]

MenuEscape ==
    /\ process = "RUNNING" /\ state = "MENU"
    /\ Exit
    /\ pc' = pc
    /\ frame' = [NoFrame EXCEPT !.op = "escape"]

\* variant of Game.handle_settings_input: no max(1, ...) / min(10, ...)
SettingsAdjustNoClamp(d) ==
    /\ process = "RUNNING" /\ state = "SETTINGS"
    /\ base_difficulty' = base_difficulty + d
    /\ pc' = pc
    /\ frame' = NoFrame
    /\ UNCHANGED << process, now, state, menu_selected, difficulty_level,
                    player, bullets, enemies, powerups, effects, score,
                    best_score, wave, enemies_in_wave, enemies_spawned,
                    wave_complete, wave_pause_timer, last_enemy_spawn,
                    highscore_file >>
\* Game.handle_settings_input: K_LEFT / K_a (d = -1), K_RIGHT / K_d (d = 1)
SettingsAdjust(d) ==
    /\ process = "RUNNING" /\ state = "SETTINGS"
    /\ base_difficulty' =
           IF d < 0 THEN Max2(MIN_DIFFICULTY, base_difficulty - 1)
           ELSE Min2(MAX_DIFFICULTY, base_difficulty + 1)
    /\ pc' = pc
    /\ frame' = NoFrame
    /\ UNCHANGED << process, now, state, menu_selected, difficulty_level,
                    player, bullets, enemies, powerups, effects, score,
                    best_score, wave, enemies_in_wave, enemies_spawned,
                    wave_complete, wave_pause_timer, last_enemy_spawn,
                    highscore_file >>

\* Game.handle_settings_input: K_RETURN / K_SPACE / K_ESCAPE
SettingsBack ==
    /\ process = "RUNNING" /\ state = "SETTINGS"
    /\ state' = "MENU"
    /\ pc' = pc
    /\ frame' = NoFrame
    /\ UNCHANGED << process, now, menu_selected, base_difficulty,
                    difficulty_level, player, bullets, enemies, powerups,
                    effects, score, best_score, wave, enemies_in_wave,
                    enemies_spawned, wave_complete, wave_pause_timer,
                    last_enemy_spawn, highscore_file >>

\* Game.handle_events in PLAYING, K_SPACE: Player.shoot at the current time
PlayingFire ==
    /\ process = "RUNNING" /\ state = "PLAYING" /\ player # NoPlayer
    /\ Len(bullets) < MaxBullets /\ now <= MaxFireTime
    /\ LET r == Shoot(player, now)
       IN /\ player' = r.p
          /\ bullets' = bullets \o r.bullets
          /\ pc' = pc
          /\ frame' = [NoFrame EXCEPT
                         !.op = "fire",
                         !.shot = [t |-> now, last |-> player.last_shot_time,
                                   cooldown |-> player.shoot_cooldown,
                                   n |-> Len(r.bullets),
                                   bullets |-> r.bullets]]
    /\ UNCHANGED << process, now, state, menu_selected, base_difficulty,
                    difficulty_level, enemies, powerups, effects, score,
                    best_score, wave, enemies_in_wave, enemies_spawned,
                    wave_complete, wave_pause_timer, last_enemy_spawn,
                    highscore_file >>

\* the mode changes of Game.handle_events / Game.handle_pause_input
SetState(to) ==
    /\ state' = to
    /\ pc' = pc
    /\ frame' = NoFrame
    /\ UNCHANGED << process, now, menu_selected, base_difficulty,
                    difficulty_level, player, bullets, enemies, powerups,
                    effects, score, best_score, wave, enemies_in_wave,
                    enemies_spawned, wave_complete, wave_pause_timer,
                    last_enemy_spawn, highscore_file >>

\* Game.handle_events in PLAYING, K_p
PlayingPause ==
    /\ process = "RUNNING" /\ state = "PLAYING"
    /\ now <= MaxPauseTime
    /\ SetState("PAUSED")

\* Game.handle_pause_input, K_p
PausedResume ==
    /\ process = "RUNNING" /\ state = "PAUSED"
    /\ SetState("PLAYING")

\* variant of Game.handle_pause_input, K_ESCAPE: the settings are opened
PausedToSettings ==
    /\ process = "RUNNING" /\ state = "PAUSED"
    /\ SetState("SETTINGS")
\* Game.handle_pause_input, K_ESCAPE
PausedToMenu ==
    /\ process = "RUNNING" /\ state = "PAUSED"
    /\ SetState("MENU")

\* the keys that Game.handle_pause_input and Game.handle_settings_input
\* have no branch for; K_SPACE fires and the others move the player in
\* PLAYING
PausedKeys == {"K_SPACE", "K_LEFT", "K_RIGHT", "K_UP", "K_DOWN"}
SettingsKeys == {"K_UP", "K_DOWN"}

\* variant of Game.handle_pause_input: K_SPACE fires as it does in PLAYING
PausedOtherKeyFires(key) ==
    /\ process = "RUNNING" /\ state = "PAUSED" /\ player # NoPlayer
    /\ LET r == IF key = "K_SPACE" THEN Shoot(player, now)
                ELSE [p |-> player, bullets |-> << >>]
       IN /\ player' = r.p
          /\ bullets' = bullets \o r.bullets
    /\ pc' = pc
    /\ frame' = [NoFrame EXCEPT !.op = "key"]
    /\ UNCHANGED << process, now, state, menu_selected, base_difficulty,
                    difficulty_level, enemies, powerups, effects, score,
                    best_score, wave, enemies_in_wave, enemies_spawned,
                    wave_complete, wave_pause_timer, last_enemy_spawn,
                    highscore_file >>
\* Game.handle_pause_input, a key other than K_p and K_ESCAPE
PausedOtherKey(key) ==
    /\ process = "RUNNING" /\ state = "PAUSED"
    /\ key \in PausedKeys
    /\ pc' = pc
    /\ frame' = [NoFrame EXCEPT !.op = "key"]
    /\ UNCHANGED << process, now, player, gameVars, highscore_file >>

\* Game.handle_settings_input, a key that none of its branches names
SettingsOtherKey(key) ==
    /\ process = "RUNNING" /\ state = "SETTINGS"
    /\ key \in SettingsKeys
    /\ pc' = pc
    /\ frame' = [NoFrame EXCEPT !.op = "key"]
    /\ UNCHANGED << process, now, player, gameVars, highscore_file >>

\* Game.update when the state is not PLAYING: it returns at once
UpdateNotPlaying ==
    /\ process = "RUNNING" /\ state # "PLAYING"
    /\ pc' = pc
    /\ frame' = [NoFrame EXCEPT !.op = "idle"]
    /\ UNCHANGED << process, now, player, gameVars, highscore_file >>

\* Game.handle_events in GAME_OVER, K_r: Game.reset_game
GameOverRestart ==
    /\ process = "RUNNING" /\ state = "GAME_OVER"
    /\ StartGame

\* Game.handle_events in GAME_OVER, K_ESCAPE
GameOverToMenu ==
    /\ process = "RUNNING" /\ state = "GAME_OVER"
    /\ SetState("MENU")

\* variant of the game-over branch of Game.update: best_score is not updated
UpdateGameOverKeepsBest ==
    /\ process = "RUNNING" /\ state = "PLAYING"
    /\ (player = NoPlayer \/ ~IsAlive(player))
    /\ state' = "GAME_OVER"
    /\ pc' = pc
    /\ frame' = [NoFrame EXCEPT !.op = "gameover"]
    /\ UNCHANGED << process, now, menu_selected, base_difficulty,
                    difficulty_level, player, bullets, enemies, powerups,
                    effects, score, best_score, wave, enemies_in_wave,
                    enemies_spawned, wave_complete, wave_pause_timer,
                    last_enemy_spawn, highscore_file >>
\* Game.update in PLAYING when the player is missing or not alive
UpdateGameOver ==
    /\ process = "RUNNING" /\ state = "PLAYING"
    /\ (player = NoPlayer \/ ~IsAlive(player))
    /\ best_score' = IF score > best_score THEN score ELSE best_score
    /\ state' = "GAME_OVER"
    /\ pc' = pc
    /\ frame' = [NoFrame EXCEPT !.op = "gameover"]
    /\ UNCHANGED << process, now, menu_selected, base_difficulty,
                    difficulty_level, player, bullets, enemies, powerups,
                    effects, score, wave, enemies_in_wave, enemies_spawned,
                    wave_complete, wave_pause_timer, last_enemy_spawn,
                    highscore_file >>

\* the outcomes of the drop roll and of PowerUp.random_kind() that a frame
\* can see: none is ever looked at when config.POWERUP_CHANCE is unbound
DropOutcomes == IF HasAttr("POWERUP_CHANCE") THEN BOOLEAN ELSE {FALSE}
KindOutcomes ==
    IF HasAttr("POWERUP_CHANCE")
    THEN { POWERUP_TYPES[i] : i \in 1..Len(POWERUP_TYPES) }
    ELSE { POWERUP_TYPES[1] }

\* the sets of enemies that can leave the screen in one frame: any, and
\* every enemy that has been on the screen for MaxStay frames
Leaving(es) ==
    { S \in SUBSET (1..Len(es)) :
        \A j \in 1..Len(es) : es[j].frames >= MaxStay => j \in S }

\* how many bullets can leave the screen in one frame: the oldest first, and
\* every bullet that has been on the screen for MaxFlight frames
Flown(bs) ==
    { n \in 0..Len(bs) :
        \A i \in 1..Len(bs) : bs[i].frames >= MaxFlight => i <= n }

\* every sprite of the group has had one more update
Aged(s) == [i \in 1..Len(s) |-> [s[i] EXCEPT !.frames = @ + 1]]

\* Game.update in PLAYING with a living player: one frame at time t.
\*   bOut     how many bullets leave the screen in Bullet.update (bullets
\*            fly upwards at one speed, so the oldest leave first)
\*   eOut     the enemies that leave the screen in Enemy.update
\*   pOut     the power-ups that leave the screen in PowerUp.update
\*   overlap, touch, picked   the rectangle overlaps found by
\*            groupcollide / spritecollide (an enemy spawned in this frame
\*            sits above the screen and cannot overlap the player)
\* Player.handle_input only moves the rectangle.
UpdateFrame ==
    /\ process = "RUNNING" /\ state = "PLAYING"
    /\ player # NoPlayer /\ IsAlive(player)
    /\ now + FrameStep <= MaxTime
    /\ player.last_shot_time > 0 => now + FrameStep <= MaxFiredTime
    /\ LET t == now + FrameStep
           pu == PlayerUpdate(player, t)
       IN
       \E bOut \in Flown(bullets), eOut \in Leaving(enemies),
          pOut \in SUBSET (1..Len(powerups)) :
       LET bullets1 == SubSeq(Aged(bullets), bOut + 1, Len(bullets))
           enemies1 == Keep(Aged(enemies), (1..Len(enemies)) \ eOut)
           powerups1 == Keep(powerups, (1..Len(powerups)) \ pOut)
           w1 == WaveStep(WaveState, t, Len(enemies1))
           spawn == SpawnDue(w1, t)
           types == ChooseEnemyType(w1.difficulty_level, w1.wave)
       IN
       \E enemy_type \in (IF spawn THEN types ELSE {"basic"}) :
       LET level == w1.difficulty_level
           enemy == Enemy(EnemySpeed(level, enemy_type),
                          EnemyHp(level, enemy_type), enemy_type)
           enemies2 == IF spawn THEN Append(enemies1, enemy) ELSE enemies1
           w2 == IF spawn
                 THEN [w1 EXCEPT !.enemies_spawned = @ + 1,
                                 !.last_enemy_spawn = t]
                 ELSE w1
       IN
       \E overlap \in [1..Len(bullets1) -> SUBSET (1..Len(enemies2))],
             touch \in SUBSET (1..Len(enemies1)),
             picked \in SUBSET (1..Len(powerups1)),
             drop \in DropOutcomes, kind \in KindOutcomes :
          LET c0 == [obj |-> enemies2, inGrp |-> 1..Len(enemies2),
                     bullets |-> bullets1, bIn |-> 1..Len(bullets1),
                     pw |-> powerups1, fx |-> EffectsUpdate(effects, t),
                     score |-> score, rolls |-> 0,
                     hits |-> << >>, raised |-> FALSE, p |-> pu.p,
                     damaged |-> FALSE, contact |-> {},
                     survived |-> {}]
          IN \E c \in { IF pu.raised THEN [c0 EXCEPT !.raised = TRUE]
                       ELSE HandleCollisions(c0, overlap, touch, picked,
                                             drop, kind, t) } :
             /\ now' = t
             /\ process' = IF c.raised THEN "CRASHED" ELSE "RUNNING"
             /\ player' = c.p
             /\ bullets' = Keep(c.bullets, c.bIn)
             /\ enemies' = Keep(c.obj, c.inGrp)
             /\ powerups' = c.pw
             /\ effects' = c.fx
             /\ score' = c.score
             /\ wave' = w2.wave
             /\ difficulty_level' = w2.difficulty_level
             /\ enemies_in_wave' = w2.enemies_in_wave
             /\ enemies_spawned' = w2.enemies_spawned
             /\ wave_complete' = w2.wave_complete
             /\ wave_pause_timer' = w2.wave_pause_timer
             /\ last_enemy_spawn' = w2.last_enemy_spawn
             /\ pc' = pc
             /\ frame' = [op |-> "frame", hits |-> c.hits,
                          contact |-> c.contact, survived |-> c.survived,
                          damaged |-> c.damaged, shot |-> NoShot,
                          prev |-> NoPlayer, alive |-> Len(enemies1),
                          io |-> NoIo, kind |-> ""]
             /\ UNCHANGED << state, menu_selected, base_difficulty, best_score,
                             highscore_file >>

Next ==
    \/ \E d \in {-1, 1} : MenuMove(d)
    \/ ExecutePlay
    \/ ExecuteSettings
    \/ ExecuteQuit
    \/ MenuEscape
    \/ \E d \in {-1, 1} : SettingsAdjust(d)
    \/ SettingsBack
    \/ PlayingFire
    \/ PlayingPause
    \/ PausedResume
    \/ PausedToMenu
    \/ \E key \in PausedKeys : PausedOtherKey(key)
    \/ \E key \in SettingsKeys : SettingsOtherKey(key)
    \/ GameOverRestart
    \/ GameOverToMenu
    \/ UpdateNotPlaying
    \/ UpdateGameOver
    \/ UpdateFrame

Spec == Init /\ [][Next]_vars

(***************************************************************************)
(* Properties of a session (Spec)                                          *)
(***************************************************************************)
\* the entries of the bullet-enemy log of the last frame about the Enemy
\* object at position j
HitsOn(j) == { k \in DOMAIN frame.hits : frame.hits[k].pos = j }
HitObjects == { frame.hits[k].pos : k \in DOMAIN frame.hits }

\* C1: the points of a hostile are added to the score exactly once, by the
\* hit that first brings its hp to <= 0; a hit that leaves its hp > 0 adds
\* nothing to the score and leaves the hostile in Game.enemies; no hostile
\* that is in play has had its points credited.
C1_ScoreOncePerHostile ==
    /\ \A k \in DOMAIN frame.hits :
         LET h == frame.hits[k]
         IN /\ h.gain = IF h.before > 0 /\ h.after <= 0 THEN h.points ELSE 0
            /\ h.after > 0 => h.wasIn /\ h.stillIn
    /\ \A j \in HitObjects :
         Cardinality({ k \in HitsOn(j) : frame.hits[k].gain # 0 }) <= 1
    /\ \A j \in DOMAIN enemies : enemies[j].hp > 0

\* C1 witness: two bullets of one frame hit the same hostile, the first
\* leaves it alive without score, the second kills it and scores its points
C1_Witness ==
    \E k1, k2 \in DOMAIN frame.hits :
        /\ k1 < k2
        /\ frame.hits[k1].pos = frame.hits[k2].pos
        /\ ~frame.hits[k1].dead /\ frame.hits[k1].gain = 0
        /\ frame.hits[k2].dead
        /\ frame.hits[k2].gain = frame.hits[k2].points
        /\ score = frame.hits[k2].points

C3_HealthAndLivesInRange ==
    player # NoPlayer =>
        /\ player.hp >= 0 /\ player.hp <= player.max_hp
        /\ player.lives >= 0

\* C3 witness: contact hits have taken the last hp of the last life
C3_Witness ==
    /\ player # NoPlayer
    /\ player.hp = 0 /\ player.lives = 0
    /\ frame.op = "frame" /\ frame.damaged

\* C4: every hostile that overlaps the player in a frame's collision pass is
\* removed in that frame, whether the player is invincible or not.
C4_ContactRemovesHostile ==
    frame.op = "frame" => frame.survived = {}

\* C5: when a PLAYING frame has completed with a player that is not alive,
\* the state is GAME_OVER: the game is never PLAYING with such a player.
C5_NeverPlayingWithDeadPlayer ==
    (process = "RUNNING" /\ state = "PLAYING" /\ player # NoPlayer)
        => IsAlive(player)

\* the candidate set that C8 states for difficulty level d and wave w
ClaimedEnemyTypes(d, w) ==
    {"basic"}
    \cup (IF d >= 2 \/ w >= 2 THEN {"fast"} ELSE {})
    \cup (IF d >= 3 \/ w >= 4 THEN {"heavy"} ELSE {})
    \cup (IF d >= 5 \/ w >= 6 THEN {"tank"} ELSE {})

\* C8: the enemy types the spawn policy can select at the current difficulty
\* level and wave are exactly: basic; fast iff d >= 2 or w >= 2; heavy iff
\* d >= 3 or w >= 4; tank iff d >= 5 or w >= 6.
C8_CandidateSet ==
    (process = "RUNNING" /\ state = "PLAYING") =>
        ChooseEnemyType(difficulty_level, wave)
            = ClaimedEnemyTypes(difficulty_level, wave)

(***************************************************************************)
(* The Player class on its own (player.py), driven by the calls the Game   *)
(* and the PowerUp make on it, each at the current clock reading:          *)
(* Player.update, Player.shoot, Player.take_damage and the store into      *)
(* Player.active_effects of PowerUp.apply_effect.  The clock moves between *)
(* calls through the instants of PlayerTimes.                              *)
(***************************************************************************)
PlayerTimes == {1, 299, 300, 600, 1300, 2299, 2300}
PlayerDurations == {300, 1000}
PlayerHps == {10, PLAYER_MAX_HP}

\* a Player as a session can hold it: built by Player.__init__, then hit by
\* enemies some number of times
PlayerInit ==
    /\ process = "RUNNING"
    /\ now = 0
    /\ state = "PLAYING"
    /\ menu_selected = 0
    /\ base_difficulty = 1
    /\ difficulty_level = 1
    /\ player \in { [NewPlayer EXCEPT !.hp = h, !.lives = l] :
                        h \in PlayerHps, l \in 1..PLAYER_START_LIVES }
    /\ bullets = << >>
    /\ enemies = << >>
    /\ powerups = << >>
    /\ effects = << >>
    /\ highscore_file = MissingFile
    /\ score = 0
    /\ best_score = 0
    /\ wave = 1
    /\ enemies_in_wave = 5
    /\ enemies_spawned = 0
    /\ wave_complete = FALSE
    /\ wave_pause_timer = 0
    /\ last_enemy_spawn = 0
    /\ frame = NoFrame
    /\ pc = "events"

\* pygame.time.get_ticks() has moved on to t
ClockAdvance(t) ==
    /\ process = "RUNNING"
    /\ t > now
    /\ now' = t
    /\ pc' = pc
    /\ frame' = [NoFrame EXCEPT !.op = "clock"]
    /\ UNCHANGED << process, player, gameVars, highscore_file >>

\* Player.update(now), as Game.update calls it on a living player
CallUpdate ==
    /\ process = "RUNNING" /\ IsAlive(player)
    /\ LET pu == PlayerUpdate(player, now)
       IN /\ player' = pu.p
          /\ process' = IF pu.raised THEN "CRASHED" ELSE "RUNNING"
    /\ pc' = pc
    /\ frame' = [NoFrame EXCEPT !.op = "update", !.prev = player]
    /\ UNCHANGED << now, gameVars, highscore_file >>

\* Player.shoot(now), as Game.handle_events calls it on K_SPACE
CallShoot ==
    /\ process = "RUNNING"
    /\ LET r == Shoot(player, now)
       IN /\ player' = r.p
          /\ pc' = pc
          /\ frame' = [NoFrame EXCEPT
                         !.op = "shoot",
                         !.prev = player,
                         !.shot = [t |-> now, last |-> player.last_shot_time,
                                   cooldown |-> player.shoot_cooldown,
                                   n |-> Len(r.bullets),
                                   bullets |-> r.bullets]]
    /\ UNCHANGED << process, now, gameVars, highscore_file >>

\* Player.take_damage(10, now) on a living player
CallTakeDamage ==
    /\ process = "RUNNING" /\ IsAlive(player)
    /\ player' = PlayerTakeDamage(player, CONTACT_DAMAGE, now)
    /\ pc' = pc
    /\ frame' = [NoFrame EXCEPT !.op = "damage", !.prev = player]
    /\ UNCHANGED << process, now, gameVars, highscore_file >>

\* the store "player.active_effects[self.kind] = current_time + duration" of
\* PowerUp.apply_effect for a timed kind.  The duration is an input of the
\* call: the game itself never gets to the store, its read of
\* config.POWERUP_DURATION raises AttributeError first.
RecordEffect(p, kind, t, duration) ==
    [p EXCEPT !.active_effects =
                  { e \in @ : e[1] # kind } \cup { <<kind, t + duration>> }]

CallRecordEffect(kind, duration) ==
    /\ process = "RUNNING" /\ IsAlive(player)
    /\ player.active_effects = {}
    /\ player' = RecordEffect(player, kind, now, duration)
    /\ pc' = pc
    /\ frame' = [NoFrame EXCEPT !.op = "effect", !.prev = player]
    /\ UNCHANGED << process, now, gameVars, highscore_file >>

MaxEffects == 2   \* effects recorded on one Player
MaxLives == 4     \* LIFE is applied while the lives are below this

\* PowerUp.apply_effect(player, now) of a power-up of the given kind, as
\* Game._handle_collisions calls it; an AttributeError ends the process
CallApplyEffect(kind) ==
    /\ process = "RUNNING" /\ IsAlive(player)
    /\ kind = "LIFE" => player.lives < MaxLives
    /\ LET r == ApplyEffect(kind, player, now)
       IN /\ player' = r.p
          /\ process' = IF r.raised THEN "CRASHED" ELSE "RUNNING"
    /\ pc' = pc
    /\ frame' = [NoFrame EXCEPT !.op = "pickup", !.kind = kind,
                                !.prev = player]
    /\ UNCHANGED << now, gameVars, highscore_file >>

PlayerNext ==
    \/ \E t \in PlayerTimes : ClockAdvance(t)
    \/ CallUpdate
    \/ CallShoot
    \/ CallTakeDamage
    \/ \E kind \in TimedKinds, duration \in PlayerDurations :
           CallRecordEffect(kind, duration)

PlayerSpec == PlayerInit /\ [][PlayerNext]_vars

(***************************************************************************)
(* The Player and the power-ups: apply_effect, the effects it would record *)
(* and Player.shoot called on their own                                    *)
(***************************************************************************)
EffectTimes == {300, 600}

\* as CallRecordEffect, on a Player that may hold other effects
CallRecordAnother(kind, duration) ==
    /\ process = "RUNNING" /\ IsAlive(player)
    /\ ~HasEffect(player, kind)
    /\ Cardinality(player.active_effects) < MaxEffects
    /\ player' = RecordEffect(player, kind, now, duration)
    /\ pc' = pc
    /\ frame' = [NoFrame EXCEPT !.op = "effect", !.prev = player]
    /\ UNCHANGED << process, now, gameVars, highscore_file >>

EffectNext ==
    \/ \E t \in EffectTimes : ClockAdvance(t)
    \/ CallShoot
    \/ \E kind \in TimedKinds : CallRecordAnother(kind, BULLET_COOLDOWN)
    \/ \E i \in 1..Len(POWERUP_TYPES) : CallApplyEffect(POWERUP_TYPES[i])

EffectSpec == PlayerInit /\ [][EffectNext]_vars

(***************************************************************************)
(* Properties of the Player class (PlayerSpec)                             *)
(***************************************************************************)
\* the effect of one of the kinds in K that p records with an expiry after t
LiveEffect(p, K, t) == \E e \in p.active_effects : e[1] \in K /\ t < e[2]

C9_FireCooldownGate ==
    frame.op = "shoot" =>
        IF frame.shot.t - frame.shot.last < frame.shot.cooldown
        THEN frame.shot.n = 0 /\ player = frame.prev
        ELSE /\ frame.shot.n >= 1
             /\ player.last_shot_time = frame.shot.t
             /\ player = [frame.prev EXCEPT !.last_shot_time = frame.shot.t]

\* C9 witness: a second attempt inside the cooldown window opened by an
\* earlier shot is refused
C9_Witness ==
    /\ frame.op = "shoot"
    /\ frame.shot.last > 0
    /\ frame.shot.t - frame.shot.last < frame.shot.cooldown
    /\ frame.shot.n = 0

\* C10: take_damage on a player that is not invincible lowers hp by the
\* damage and makes the player invincible with invincibility_timer = now;
\* take_damage on an invincible player changes nothing.
C10_HitLowersHp ==
    frame.op = "damage" =>
        IF frame.prev.is_invincible
        THEN player = frame.prev
        ELSE /\ player.hp = frame.prev.hp - CONTACT_DAMAGE
             /\ player.is_invincible
             /\ player.invincibility_timer = now

\* C10 as amended: when the hit brings hp to <= 0 a life is taken and, if
\* lives remain, hp is set back to max_hp; otherwise hp is lowered by the
\* damage.  In both cases the player becomes invincible with
\* invincibility_timer = now, and take_damage on an invincible player
\* changes nothing.
C10_HitLowersHpOrTakesLife ==
    frame.op = "damage" =>
        IF frame.prev.is_invincible
        THEN player = frame.prev
        ELSE /\ player.is_invincible
             /\ player.invincibility_timer = now
             /\ IF frame.prev.hp - CONTACT_DAMAGE > 0
                THEN /\ player.hp = frame.prev.hp - CONTACT_DAMAGE
                     /\ player.lives = frame.prev.lives
                ELSE /\ player.lives = frame.prev.lives - 1
                     /\ player.hp = IF player.lives > 0
                                    THEN player.max_hp
                                    ELSE frame.prev.hp - CONTACT_DAMAGE

\* C10 witness: a player hit at full hp is hit again 1 ms later, while
\* invincible, and stays at 90 hp
C10_Witness ==
    /\ frame.op = "damage"
    /\ frame.prev.is_invincible
    /\ now = frame.prev.invincibility_timer + 1
    /\ player.hp = PLAYER_MAX_HP - CONTACT_DAMAGE
    /\ player.invincibility_timer = frame.prev.invincibility_timer

(***************************************************************************)
(* Spawning and the collision pass on their own: enemies of every type are *)
(* spawned at every difficulty level with the speed and hp the wave step   *)
(* computes, and Game._handle_collisions runs on them with no bullet in    *)
(* flight                                                                  *)
(***************************************************************************)
MaxPassEnemies == 2   \* enemies in Game.enemies
EnemyTypes == {"basic", "fast", "heavy", "tank"}

PassInit ==
    /\ process = "RUNNING"
    /\ now = 0
    /\ state = "PLAYING"
    /\ menu_selected = 0
    /\ base_difficulty \in MIN_DIFFICULTY..MAX_DIFFICULTY
    /\ difficulty_level = base_difficulty
    /\ player \in { [NewPlayer EXCEPT !.hp = h, !.lives = l] :
                        h \in PlayerHps, l \in 1..PLAYER_START_LIVES }
    /\ bullets = << >>
    /\ enemies = << >>
    /\ powerups = << >>
    /\ effects = << >>
    /\ highscore_file = MissingFile
    /\ score = 0
    /\ best_score = 0
    /\ wave = 1
    /\ enemies_in_wave = 5
    /\ enemies_spawned = 0
    /\ wave_complete = FALSE
    /\ wave_pause_timer = 0
    /\ last_enemy_spawn = 0
    /\ frame = NoFrame
    /\ pc = "events"

\* the spawn of Game._update_waves_and_difficulty for an enemy_type
PassSpawn(enemy_type) ==
    /\ process = "RUNNING"
    /\ Len(enemies) < MaxPassEnemies
    /\ enemies' = Append(enemies,
                         Enemy(EnemySpeed(difficulty_level, enemy_type),
                               EnemyHp(difficulty_level, enemy_type),
                               enemy_type))
    /\ pc' = pc
    /\ frame' = [NoFrame EXCEPT !.op = "spawn"]
    /\ UNCHANGED << process, now, state, menu_selected, base_difficulty,
                    difficulty_level, player, bullets, powerups, effects,
                    score, best_score, wave, enemies_in_wave, enemies_spawned,
                    wave_complete, wave_pause_timer, last_enemy_spawn,
                    highscore_file >>

\* Game._handle_collisions(now) on a living player
PassCollide ==
    /\ process = "RUNNING" /\ IsAlive(player)
    /\ \E touch \in SUBSET (1..Len(enemies)) :
          LET c0 == [obj |-> enemies, inGrp |-> 1..Len(enemies),
                     bullets |-> bullets, bIn |-> 1..Len(bullets),
                     pw |-> powerups, fx |-> effects,
                     score |-> score, rolls |-> 0,
                     hits |-> << >>, raised |-> FALSE, p |-> player,
                     damaged |-> FALSE, contact |-> {},
                     survived |-> {}]
          IN \E c \in { HandleCollisions(c0, [i \in 1..Len(bullets) |-> {}],
                                         touch, {}, FALSE, "HEALTH", now) } :
             /\ player' = c.p
             /\ enemies' = Keep(c.obj, c.inGrp)
             /\ pc' = pc
             /\ frame' = [NoFrame EXCEPT !.op = "pass",
                                        !.contact = c.contact,
                                        !.survived = c.survived,
                                        !.damaged = c.damaged,
                                        !.prev = player]
    /\ UNCHANGED << process, now, state, menu_selected, base_difficulty,
                    difficulty_level, bullets, powerups, effects, score,
                    best_score, wave, enemies_in_wave, enemies_spawned,
                    wave_complete, wave_pause_timer, last_enemy_spawn,
                    highscore_file >>

PassNext ==
    \/ \E enemy_type \in EnemyTypes : PassSpawn(enemy_type)
    \/ PassCollide

PassSpec == PassInit /\ [][PassNext]_vars

(***************************************************************************)
(* The Player under the frames of a session that keeps PLAYING: every      *)
(* frame reads a later clock and calls Player.update; the contact step of  *)
(* the same frame may then call Player.take_damage.  The run loop of       *)
(* main.py calls Game.update on every iteration, so the frames of a living *)
(* player are taken under weak fairness.                                   *)
(***************************************************************************)
MaxTickTime == 6000   \* the clock is explored up to this many ms
TickSteps == {999, 1000, 1001}   \* ms between two frames

\* one PLAYING frame: the clock moves on and Game.update calls Player.update
TickFrame ==
    /\ process = "RUNNING" /\ IsAlive(player)
    /\ \E step \in TickSteps :
          /\ now + step <= MaxTickTime
          /\ now' = now + step
          /\ LET pu == PlayerUpdate(player, now + step)
             IN /\ player' = pu.p
                /\ process' = IF pu.raised THEN "CRASHED" ELSE "RUNNING"
    /\ pc' = pc
    /\ frame' = [NoFrame EXCEPT !.op = "tick", !.prev = player]
    /\ UNCHANGED << gameVars, highscore_file >>

\* the contact step of the frame: Player.take_damage(10, now); hits are
\* followed while the clock leaves room for the invincibility to run out
TickHit ==
    /\ process = "RUNNING" /\ IsAlive(player)
    /\ frame.op # "hit"
    /\ \A step \in TickSteps :
          now + INVINCIBILITY_DURATION + step <= MaxTickTime
    /\ player' = PlayerTakeDamage(player, CONTACT_DAMAGE, now)
    /\ pc' = pc
    /\ frame' = [NoFrame EXCEPT !.op = "hit", !.prev = player]
    /\ UNCHANGED << process, now, gameVars, highscore_file >>

TickNext == TickFrame \/ TickHit

TickSpec == PlayerInit /\ [][TickNext]_vars /\ WF_vars(TickFrame)

(***************************************************************************)
(* Player.handle_input on its own (player.py): the Player record carries   *)
(* the position x, y of its rectangle, which the other specifications do   *)
(* not follow.  Player.x and Player.y are floats that only ever hold whole *)
(* numbers (an int start, int steps and int limits), so rect.x = int(x)    *)
(* is x.                                                                   *)
(***************************************************************************)
Keys == {"up", "down", "left", "right"}   \* W/UP, S/DOWN, A/LEFT, D/RIGHT

\* Player.__init__(x, y): the Player with its position
PlayerAt(x, y) ==
    [ hp |-> PLAYER_MAX_HP,
      max_hp |-> PLAYER_MAX_HP,
      lives |-> PLAYER_START_LIVES,
      last_shot_time |-> 0,
      shoot_cooldown |-> BULLET_COOLDOWN,
      is_invincible |-> FALSE,
      invincibility_timer |-> 0,
      active_effects |-> {},
      speed |-> PLAYER_SPEED,
      x |-> x,
      y |-> y ]

\* the Player of Game.start_game
StartPlayer ==
    PlayerAt(SCREEN_WIDTH \div 2 - PLAYER_WIDTH \div 2,
             SCREEN_HEIGHT - PLAYER_HEIGHT - 20)

\* variant of Player.handle_input: the new position is not clamped
HandleInputNoClamp(p, keys) ==
    LET dy == IF "down" \in keys THEN p.speed
              ELSE IF "up" \in keys THEN 0 - p.speed ELSE 0
        dx == IF "right" \in keys THEN p.speed
              ELSE IF "left" \in keys THEN 0 - p.speed ELSE 0
    IN [p EXCEPT !.x = p.x + dx, !.y = p.y + dy]
\* Player.handle_input(keys), keys the set of the pressed directions: "down"
\* is tested after "up" and "right" after "left", so they win
HandleInput(p, keys) ==
    LET dy == IF "down" \in keys THEN p.speed
              ELSE IF "up" \in keys THEN 0 - p.speed ELSE 0
        dx == IF "right" \in keys THEN p.speed
              ELSE IF "left" \in keys THEN 0 - p.speed ELSE 0
    IN [p EXCEPT !.x = Max2(0, Min2(SCREEN_WIDTH - PLAYER_WIDTH, p.x + dx)),
                 !.y = Max2(0, Min2(SCREEN_HEIGHT - PLAYER_HEIGHT, p.y + dy))]

MoveInit ==
    /\ process = "RUNNING"
    /\ now = 0
    /\ state = "PLAYING"
    /\ menu_selected = 0
    /\ base_difficulty = 1
    /\ difficulty_level = 1
    /\ player = StartPlayer
    /\ bullets = << >>
    /\ enemies = << >>
    /\ powerups = << >>
    /\ effects = << >>
    /\ highscore_file = MissingFile
    /\ score = 0
    /\ best_score = 0
    /\ wave = 1
    /\ enemies_in_wave = 5
    /\ enemies_spawned = 0
    /\ wave_complete = FALSE
    /\ wave_pause_timer = 0
    /\ last_enemy_spawn = 0
    /\ frame = NoFrame
    /\ pc = "events"

\* a frame's call of Player.handle_input with the keys that are held down
CallHandleInput(keys) ==
    /\ process = "RUNNING"
    /\ player' = HandleInput(player, keys)
    /\ pc' = pc
    /\ frame' = [NoFrame EXCEPT !.op = "input", !.prev = player]
    /\ UNCHANGED << process, now, gameVars, highscore_file >>

MoveNext == \E keys \in SUBSET Keys : CallHandleInput(keys)

MoveSpec == MoveInit /\ [][MoveNext]_vars

(***************************************************************************)
(* One PLAYING frame step by step (game.py, main.py): Game.update taken    *)
(* apart into its calls, in the order of its statements, with pc the place *)
(* the call of Game.update has reached.  The run loop of main.py handles   *)
(* the events of an iteration before it calls Game.update, so              *)
(* Game.handle_events runs while pc = "events".  The Player carries its    *)
(* position; within MaxPhaseTime it cannot lose its three lives, so the    *)
(* branch of Game.update for a dead player is not taken here.              *)
(***************************************************************************)
MaxPhaseTime == 4000   \* the clock is explored up to this many ms
PhaseKeys == { {}, {"left"}, {"right", "down"} }

\* variant of the order of Game.update: the collisions are resolved before
\* the waves are updated
PhaseAfterCollideFirst(p) ==
    IF p = "events" THEN "input"
    ELSE IF p = "input" THEN "player"
    ELSE IF p = "player" THEN "sprites"
    ELSE IF p = "sprites" THEN "collisions"
    ELSE IF p = "collisions" THEN "waves"
    ELSE "events"
\* the order of the statements of Game.update: the place after place p
PhaseAfter(p) ==
    IF p = "events" THEN "input"
    ELSE IF p = "input" THEN "player"
    ELSE IF p = "player" THEN "sprites"
    ELSE IF p = "sprites" THEN "waves"
    ELSE IF p = "waves" THEN "collisions"
    ELSE "events"

PhaseInit ==
    /\ process = "RUNNING"
    /\ now = 0
    /\ state = "PLAYING"
    /\ menu_selected = 0
    /\ base_difficulty = 1
    /\ difficulty_level = 1
    /\ player = StartPlayer
    /\ bullets = << >>
    /\ enemies = << >>
    /\ powerups = << >>
    /\ effects = << >>
    /\ highscore_file = MissingFile
    /\ score = 0
    /\ best_score = 0
    /\ wave = 1
    /\ enemies_in_wave = 5
    /\ enemies_spawned = 0
    /\ wave_complete = FALSE
    /\ wave_pause_timer = 0
    /\ last_enemy_spawn = 0
    /\ frame = NoFrame
    /\ pc = "events"

\* Game.handle_events for the events of one iteration of the run loop
PhaseEvents ==
    /\ pc = "events"
    /\ \/ PlayingFire
       \/ PlayingPause
       \/ PausedResume

\* Game.update in PLAYING with a living player, up to
\* "current_time = pygame.time.get_ticks()"
PhaseBegin ==
    /\ process = "RUNNING" /\ state = "PLAYING"
    /\ player # NoPlayer /\ IsAlive(player)
    /\ pc = "events"
    /\ now + FrameStep <= MaxPhaseTime
    /\ now' = now + FrameStep
    /\ pc' = PhaseAfter(pc)
    /\ frame' = [NoFrame EXCEPT !.op = "begin"]
    /\ UNCHANGED << process, player, gameVars, highscore_file >>

\* "self.player.handle_input(keys)"
PhaseInput ==
    /\ process = "RUNNING" /\ pc = "input"
    /\ \E keys \in PhaseKeys : player' = HandleInput(player, keys)
    /\ pc' = PhaseAfter(pc)
    /\ frame' = [NoFrame EXCEPT !.op = "input", !.prev = player]
    /\ UNCHANGED << process, now, gameVars, highscore_file >>

\* "self.player.update(current_time)"
PhasePlayer ==
    /\ process = "RUNNING" /\ pc = "player"
    /\ LET pu == PlayerUpdate(player, now)
       IN /\ player' = pu.p
          /\ process' = IF pu.raised THEN "CRASHED" ELSE "RUNNING"
          /\ pc' = IF pu.raised THEN pc ELSE PhaseAfter(pc)
    /\ frame' = [NoFrame EXCEPT !.op = "update", !.prev = player]
    /\ UNCHANGED << now, gameVars, highscore_file >>

\* "self.bullets.update()" to "self.effects.update()"
PhaseSprites ==
    /\ process = "RUNNING" /\ pc = "sprites"
    /\ \E bOut \in Flown(bullets), eOut \in Leaving(enemies),
          pOut \in SUBSET (1..Len(powerups)) :
          /\ bullets' = SubSeq(Aged(bullets), bOut + 1, Len(bullets))
          /\ enemies' = Keep(Aged(enemies), (1..Len(enemies)) \ eOut)
          /\ powerups' = Keep(powerups, (1..Len(powerups)) \ pOut)
    /\ effects' = EffectsUpdate(effects, now)
    /\ pc' = PhaseAfter(pc)
    /\ frame' = [NoFrame EXCEPT !.op = "sprites"]
    /\ UNCHANGED << process, now, state, menu_selected, base_difficulty,
                    difficulty_level, player, score, best_score, wave,
                    enemies_in_wave, enemies_spawned, wave_complete,
                    wave_pause_timer, last_enemy_spawn, highscore_file >>

\* "self._update_waves_and_difficulty(current_time)"
PhaseWaves ==
    /\ process = "RUNNING" /\ pc = "waves"
    /\ LET w1 == WaveStep(WaveState, now, Len(enemies))
           spawn == SpawnDue(w1, now)
           level == w1.difficulty_level
       IN \E enemy_type \in (IF spawn
                             THEN ChooseEnemyType(level, w1.wave)
                             ELSE {"basic"}) :
          LET w2 == IF spawn
                    THEN [w1 EXCEPT !.enemies_spawned = @ + 1,
                                    !.last_enemy_spawn = now]
                    ELSE w1
          IN /\ enemies' =
                   IF spawn
                   THEN Append(enemies,
                               Enemy(EnemySpeed(level, enemy_type),
                                     EnemyHp(level, enemy_type), enemy_type))
                   ELSE enemies
             /\ wave' = w2.wave
             /\ difficulty_level' = w2.difficulty_level
             /\ enemies_in_wave' = w2.enemies_in_wave
             /\ enemies_spawned' = w2.enemies_spawned
             /\ wave_complete' = w2.wave_complete
             /\ wave_pause_timer' = w2.wave_pause_timer
             /\ last_enemy_spawn' = w2.last_enemy_spawn
    /\ pc' = PhaseAfter(pc)
    /\ frame' = [NoFrame EXCEPT !.op = "waves", !.alive = Len(enemies)]
    /\ UNCHANGED << process, now, state, menu_selected, base_difficulty,
                    player, bullets, powerups, effects, score, best_score,
                    highscore_file >>

\* "self._handle_collisions(current_time)"; an enemy spawned in this frame
\* (no Enemy.update yet) sits above the screen and cannot overlap the player
PhaseCollide ==
    /\ process = "RUNNING" /\ pc = "collisions"
    /\ \E overlap \in [1..Len(bullets) -> SUBSET (1..Len(enemies))],
          touch \in SUBSET { j \in 1..Len(enemies) : enemies[j].frames > 0 },
          picked \in SUBSET (1..Len(powerups)),
          drop \in DropOutcomes, kind \in KindOutcomes :
          LET c0 == [obj |-> enemies, inGrp |-> 1..Len(enemies),
                     bullets |-> bullets, bIn |-> 1..Len(bullets),
                     pw |-> powerups, fx |-> effects,
                     score |-> score, rolls |-> 0,
                     hits |-> << >>, raised |-> FALSE, p |-> player,
                     damaged |-> FALSE, contact |-> {},
                     survived |-> {}]
          IN \E c \in { HandleCollisions(c0, overlap, touch, picked, drop,
                                         kind, now) } :
             /\ process' = IF c.raised THEN "CRASHED" ELSE "RUNNING"
             /\ player' = c.p
             /\ bullets' = Keep(c.bullets, c.bIn)
             /\ enemies' = Keep(c.obj, c.inGrp)
             /\ powerups' = c.pw
             /\ effects' = c.fx
             /\ score' = c.score
             /\ pc' = IF c.raised THEN pc ELSE PhaseAfter(pc)
             /\ frame' = [NoFrame EXCEPT !.op = "collide",
                                        !.hits = c.hits,
                                        !.contact = c.contact,
                                        !.survived = c.survived,
                                        !.damaged = c.damaged,
                                        !.prev = player]
    /\ UNCHANGED << now, state, menu_selected, base_difficulty,
                    difficulty_level, best_score, wave, enemies_in_wave,
                    enemies_spawned, wave_complete, wave_pause_timer,
                    last_enemy_spawn, highscore_file >>

PhaseNext ==
    \/ PhaseEvents
    \/ PhaseBegin
    \/ PhaseInput
    \/ PhasePlayer
    \/ PhaseSprites
    \/ PhaseWaves
    \/ PhaseCollide

PhaseSpec == PhaseInit /\ [][PhaseNext]_vars

(***************************************************************************)
(* The clock through a pause (game.py, main.py).  The timers of the game   *)
(* are readings of pygame.time.get_ticks(), which counts the milliseconds  *)
(* since pygame.init(): the run loop of main.py keeps turning while the    *)
(* state is PAUSED (Game.update returns at once, clock.tick(FPS) waits),   *)
(* so the clock moves on.  The PLAYING frame is in outline: Player.update, *)
(* the wave step with the spawn, and the contact hit.                      *)
(***************************************************************************)
MaxPauseClock == 8000   \* the clock is explored up to this many ms

PauseInit ==
    /\ process = "RUNNING"
    /\ now = 0
    /\ state = "PLAYING"
    /\ menu_selected = 0
    /\ base_difficulty = 1
    /\ difficulty_level = 1
    /\ player = NewPlayer
    /\ bullets = << >>
    /\ enemies = << >>
    /\ powerups = << >>
    /\ effects = << >>
    /\ highscore_file = MissingFile
    /\ score = 0
    /\ best_score = 0
    /\ wave = 1
    /\ enemies_in_wave = 5
    /\ enemies_spawned = 0
    /\ wave_complete = FALSE
    /\ wave_pause_timer = 0
    /\ last_enemy_spawn = 0
    /\ frame = NoFrame
    /\ pc = "events"

\* Game.update in PLAYING with a living player, in outline: nEnemies is the
\* number of enemies alive at the wave step, hit whether an enemy overlaps
\* the player in the contact step
PauseFrame ==
    /\ process = "RUNNING" /\ state = "PLAYING" /\ IsAlive(player)
    /\ now + FrameStep <= MaxPauseClock
    /\ \E nEnemies \in 0..1, hit \in BOOLEAN :
         LET t == now + FrameStep
             pu == PlayerUpdate(player, t)
             w1 == WaveStep(WaveState, t, nEnemies)
             spawn == SpawnDue(w1, t)
             w2 == IF spawn
                   THEN [w1 EXCEPT !.enemies_spawned = @ + 1,
                                   !.last_enemy_spawn = t]
                   ELSE w1
         IN /\ now' = t
            /\ process' = IF pu.raised THEN "CRASHED" ELSE "RUNNING"
            /\ player' = IF hit /\ ~pu.raised
                         THEN PlayerTakeDamage(pu.p, CONTACT_DAMAGE, t)
                         ELSE pu.p
            /\ wave' = w2.wave
            /\ difficulty_level' = w2.difficulty_level
            /\ enemies_in_wave' = w2.enemies_in_wave
            /\ enemies_spawned' = w2.enemies_spawned
            /\ wave_complete' = w2.wave_complete
            /\ wave_pause_timer' = w2.wave_pause_timer
            /\ last_enemy_spawn' = w2.last_enemy_spawn
            /\ pc' = pc
            /\ frame' = [NoFrame EXCEPT !.op = "outline", !.alive = nEnemies,
                                        !.prev = player]
            /\ UNCHANGED << state, menu_selected, base_difficulty, bullets,
                            enemies, powerups, effects, score, best_score,
                            highscore_file >>

\* Game.handle_events in PLAYING, K_p, at any time of the session
PauseKey ==
    /\ process = "RUNNING" /\ state = "PLAYING"
    /\ SetState("PAUSED")

\* one turn of the run loop of main.py while PAUSED: Game.update returns at
\* once and the clock has moved on
UpdatePaused ==
    /\ process = "RUNNING" /\ state = "PAUSED"
    /\ now + FrameStep <= MaxPauseClock
    /\ now' = now + FrameStep
    /\ pc' = pc
    /\ frame' = [NoFrame EXCEPT !.op = "idle"]
    /\ UNCHANGED << process, player, gameVars, highscore_file >>

PauseNext ==
    \/ PauseFrame
    \/ PauseKey
    \/ PausedResume
    \/ UpdatePaused

PauseSpec == PauseInit /\ [][PauseNext]_vars

(***************************************************************************)
(* The collision pass with power-ups in Game.powerups (game.py,            *)
(* powerup.py).  The running game never holds a PowerUp, its constructor   *)
(* and the drop roll raise AttributeError first; here the group holds      *)
(* power-ups from the start, to follow what the pass does with them.       *)
(***************************************************************************)
MaxPickups == 2   \* power-ups in Game.powerups

PickupInit ==
    /\ process = "RUNNING"
    /\ now = 0
    /\ state = "PLAYING"
    /\ menu_selected = 0
    /\ base_difficulty = 1
    /\ difficulty_level = 1
    /\ player \in { [NewPlayer EXCEPT !.hp = h, !.lives = l] :
                        h \in PlayerHps, l \in 1..PLAYER_START_LIVES }
    /\ bullets = << >>
    /\ enemies = << >>
    /\ powerups \in UNION { [1..n -> { POWERUP_TYPES[i] :
                                         i \in 1..Len(POWERUP_TYPES) }] :
                            n \in 0..MaxPickups }
    /\ effects = << >>
    /\ highscore_file = MissingFile
    /\ score = 0
    /\ best_score = 0
    /\ wave = 1
    /\ enemies_in_wave = 5
    /\ enemies_spawned = 0
    /\ wave_complete = FALSE
    /\ wave_pause_timer = 0
    /\ last_enemy_spawn = 0
    /\ frame = NoFrame
    /\ pc = "events"

\* Game._handle_collisions(now) of a PLAYING frame with a living player:
\* touch and picked are the enemies and power-ups that overlap the player
PickupCollide ==
    /\ process = "RUNNING" /\ state = "PLAYING" /\ IsAlive(player)
    /\ \E touch \in SUBSET (1..Len(enemies)),
          picked \in SUBSET (1..Len(powerups)) :
          LET c0 == [obj |-> enemies, inGrp |-> 1..Len(enemies),
                     bullets |-> bullets, bIn |-> 1..Len(bullets),
                     pw |-> powerups, fx |-> effects,
                     score |-> score, rolls |-> 0,
                     hits |-> << >>, raised |-> FALSE, p |-> player,
                     damaged |-> FALSE, contact |-> {},
                     survived |-> {}]
          IN \E c \in { HandleCollisions(c0, [i \in 1..Len(bullets) |-> {}],
                                         touch, picked, FALSE, "HEALTH",
                                         now) } :
             /\ process' = IF c.raised THEN "CRASHED" ELSE "RUNNING"
             /\ player' = c.p
             /\ enemies' = Keep(c.obj, c.inGrp)
             /\ powerups' = c.pw
             /\ effects' = c.fx
             /\ pc' = pc
             /\ frame' = [NoFrame EXCEPT !.op = "pass",
                                        !.contact = c.contact,
                                        !.survived = c.survived,
                                        !.damaged = c.damaged,
                                        !.prev = player]
    /\ UNCHANGED << now, state, menu_selected, base_difficulty,
                    difficulty_level, bullets, score, best_score, wave,
                    enemies_in_wave, enemies_spawned, wave_complete,
                    wave_pause_timer, last_enemy_spawn, highscore_file >>

PickupNext ==
    \/ PassSpawn("basic")
    \/ PickupCollide
    \/ UpdateGameOver

PickupSpec == PickupInit /\ [][PickupNext]_vars

(***************************************************************************)
(* A session that stays PLAYING, frame after frame (game.py, main.py): the *)
(* run loop of main.py calls Game.update on every turn, so the frame is    *)
(* taken under weak fairness; K_SPACE may be pressed between frames.  The  *)
(* frames are followed until the wave counter has passed MaxLiveWave.      *)
(***************************************************************************)
MaxLiveWave == 1   \* frames are followed while the wave is at most this

LiveInit ==
    /\ process = "RUNNING"
    /\ now = 0
    /\ state = "PLAYING"
    /\ menu_selected = 0
    /\ base_difficulty = 1
    /\ difficulty_level = 1
    /\ player = NewPlayer
    /\ bullets = << >>
    /\ enemies = << >>
    /\ powerups = << >>
    /\ effects = << >>
    /\ highscore_file = MissingFile
    /\ score = 0
    /\ best_score = 0
    /\ wave = 1
    /\ enemies_in_wave = 5
    /\ enemies_spawned = 0
    /\ wave_complete = FALSE
    /\ wave_pause_timer = 0
    /\ last_enemy_spawn = 0
    /\ frame = NoFrame
    /\ pc = "events"

\* Game.update in PLAYING with a living player, as UpdateFrame, at any time
\* of the session
LiveFrame ==
    /\ process = "RUNNING" /\ state = "PLAYING"
    /\ player # NoPlayer /\ IsAlive(player)
    /\ wave <= MaxLiveWave
    /\ LET t == now + FrameStep
           pu == PlayerUpdate(player, t)
       IN
       \E bOut \in Flown(bullets), eOut \in Leaving(enemies),
          pOut \in SUBSET (1..Len(powerups)) :
       LET bullets1 == SubSeq(Aged(bullets), bOut + 1, Len(bullets))
           enemies1 == Keep(Aged(enemies), (1..Len(enemies)) \ eOut)
           powerups1 == Keep(powerups, (1..Len(powerups)) \ pOut)
           w1 == WaveStep(WaveState, t, Len(enemies1))
           spawn == SpawnDue(w1, t)
           types == ChooseEnemyType(w1.difficulty_level, w1.wave)
       IN
       \E enemy_type \in (IF spawn THEN types ELSE {"basic"}) :
       LET level == w1.difficulty_level
           enemy == Enemy(EnemySpeed(level, enemy_type),
                          EnemyHp(level, enemy_type), enemy_type)
           enemies2 == IF spawn THEN Append(enemies1, enemy) ELSE enemies1
           w2 == IF spawn
                 THEN [w1 EXCEPT !.enemies_spawned = @ + 1,
                                 !.last_enemy_spawn = t]
                 ELSE w1
       IN
       \E overlap \in [1..Len(bullets1) -> SUBSET (1..Len(enemies2))],
             touch \in SUBSET (1..Len(enemies1)),
             picked \in SUBSET (1..Len(powerups1)),
             drop \in DropOutcomes, kind \in KindOutcomes :
          LET c0 == [obj |-> enemies2, inGrp |-> 1..Len(enemies2),
                     bullets |-> bullets1, bIn |-> 1..Len(bullets1),
                     pw |-> powerups1, fx |-> EffectsUpdate(effects, t),
                     score |-> score, rolls |-> 0,
                     hits |-> << >>, raised |-> FALSE, p |-> pu.p,
                     damaged |-> FALSE, contact |-> {},
                     survived |-> {}]
          IN \E c \in { IF pu.raised THEN [c0 EXCEPT !.raised = TRUE]
                       ELSE HandleCollisions(c0, overlap, touch, picked,
                                             drop, kind, t) } :
             /\ now' = t
             /\ process' = IF c.raised THEN "CRASHED" ELSE "RUNNING"
             /\ player' = c.p
             /\ bullets' = Keep(c.bullets, c.bIn)
             /\ enemies' = Keep(c.obj, c.inGrp)
             /\ powerups' = c.pw
             /\ effects' = c.fx
             /\ score' = c.score
             /\ wave' = w2.wave
             /\ difficulty_level' = w2.difficulty_level
             /\ enemies_in_wave' = w2.enemies_in_wave
             /\ enemies_spawned' = w2.enemies_spawned
             /\ wave_complete' = w2.wave_complete
             /\ wave_pause_timer' = w2.wave_pause_timer
             /\ last_enemy_spawn' = w2.last_enemy_spawn
             /\ pc' = pc
             /\ frame' = [op |-> "frame", hits |-> c.hits,
                          contact |-> c.contact, survived |-> c.survived,
                          damaged |-> c.damaged, shot |-> NoShot,
                          prev |-> NoPlayer, alive |-> Len(enemies1),
                          io |-> NoIo, kind |-> ""]
             /\ UNCHANGED << state, menu_selected, base_difficulty, best_score,
                             highscore_file >>

LiveNext ==
    \/ LiveFrame
    \/ PlayingFire

LiveSpec == LiveInit /\ [][LiveNext]_vars /\ WF_vars(LiveFrame)

(***************************************************************************)
(* Properties of shots, hits and pickups (PlayerSpec, EffectSpec)          *)
(***************************************************************************)
\* C23: a shot that is not refused returns 1 bullet when neither DOUBLE_SHOT
\* nor TRIPLE_SHOT is in active_effects and 3 bullets when either is (never
\* 2); with both, the side bullets are at the TRIPLE_SHOT offsets (12); all
\* bullets of a shot have the same damage and the same upward speed.
C23_ShotPattern ==
    (frame.op = "shoot" /\ frame.shot.n > 0) =>
        LET b == frame.shot.bullets
            double == HasEffect(frame.prev, "DOUBLE_SHOT")
            triple == HasEffect(frame.prev, "TRIPLE_SHOT")
        IN /\ Len(b) = IF double \/ triple THEN 3 ELSE 1
           /\ b[1].offset = 0
           /\ triple => b[2].offset = 0 - 12 /\ b[3].offset = 12
           /\ (double /\ ~triple) => b[2].offset = 0 - 10 /\ b[3].offset = 10
           /\ \A i \in 1..Len(b) :
                 /\ b[i].damage = b[1].damage
                 /\ b[i].speed = b[1].speed
                 /\ b[i].speed < 0

\* C23 witness: a shot with both DOUBLE_SHOT and TRIPLE_SHOT recorded has
\* returned three bullets
C23_Witness ==
    /\ frame.op = "shoot" /\ frame.shot.n = 3
    /\ HasEffect(frame.prev, "DOUBLE_SHOT")
    /\ HasEffect(frame.prev, "TRIPLE_SHOT")

\* C25: a hit on a player that is not invincible which brings hp to <= 0
\* takes exactly one life; hp is then max_hp if lives remain and the value
\* <= 0 otherwise; a hit that leaves hp > 0 leaves the lives as they are.
C25_LifeLostAtZeroHp ==
    (frame.op = "damage" /\ ~frame.prev.is_invincible) =>
        LET left == frame.prev.hp - CONTACT_DAMAGE
        IN IF left <= 0
           THEN /\ player.lives = frame.prev.lives - 1
                /\ player.lives > 0 => player.hp = player.max_hp
                /\ player.lives <= 0 => player.hp = left /\ player.hp <= 0
           ELSE /\ player.lives = frame.prev.lives
                /\ player.hp = left

\* C25 witness: the hit that took the last life has left hp at 0
C25_Witness ==
    /\ frame.op = "damage" /\ ~frame.prev.is_invincible
    /\ frame.prev.lives = 1
    /\ player.lives = 0 /\ player.hp = 0

\* C27: apply_effect at time t completes and, by kind: HEALTH sets hp to
\* min(max_hp, hp + max_hp \div 2); LIFE adds one life; a timed kind K is
\* recorded in active_effects with an expiry after t, and the items of the
\* other kinds are unchanged.
C27_PickupApplied ==
    frame.op = "pickup" =>
        /\ process = "RUNNING"
        /\ frame.kind = "HEALTH" =>
               player = [frame.prev EXCEPT
                           !.hp = Min2(frame.prev.max_hp,
                                       frame.prev.hp
                                           + frame.prev.max_hp \div 2)]
        /\ frame.kind = "LIFE" =>
               player = [frame.prev EXCEPT !.lives = frame.prev.lives + 1]
        /\ frame.kind \in TimedKinds =>
               /\ \E e \in player.active_effects :
                     e[1] = frame.kind /\ e[2] > now
               /\ { e \in player.active_effects : e[1] # frame.kind }
                    = { e \in frame.prev.active_effects : e[1] # frame.kind }

\* C26: a frame's Player.update clears the invincibility exactly when the
\* clock is 2000 ms or more past the hit that started it, so the first such
\* frame clears it and no earlier one does; while frames keep coming, an
\* invincible living player becomes vulnerable again.
C26_InvincibilityEnds ==
    /\ [][ (frame'.op = "tick" /\ player.is_invincible) =>
             (player'.is_invincible <=>
                 now' - player.invincibility_timer < 2000) ]_vars
    /\ (player.is_invincible /\ IsAlive(player)) ~> ~player.is_invincible

\* C26 witness: a frame exactly 2000 ms after the hit has cleared the
\* invincibility
C26_Witness ==
    /\ frame.op = "tick" /\ frame.prev.is_invincible
    /\ ~player.is_invincible
    /\ now - frame.prev.invincibility_timer = 2000
    /\ frame.prev.invincibility_timer > 0

(***************************************************************************)
(* Properties of the collision pass (Spec, PassSpec)                       *)
(***************************************************************************)
\* C22: a bullet that overlaps enemies in a frame damages one of them, an
\* enemy that was still in Game.enemies, and the bullet is removed in that
\* frame whether or not the hit is lethal.
C22_BulletHitsOneAndIsRemoved ==
    frame.op = "frame" =>
        \A k \in 1..Len(frame.hits) :
            /\ frame.hits[k].wasIn
            /\ frame.hits[k].after = frame.hits[k].before - BULLET_DAMAGE
            /\ frame.hits[k].consumed

\* C21: when a player that is not invincible overlaps k >= 1 enemies in a
\* frame, the contact damage (10) is taken once, not k times: hp goes down
\* by 10, or one life is taken when that leaves no hp.
C21_ContactDamageOnce ==
    (frame.op = "pass" /\ ~frame.prev.is_invincible /\ frame.contact # {}) =>
        /\ frame.damaged
        /\ IF frame.prev.hp - CONTACT_DAMAGE > 0
           THEN /\ player.hp = frame.prev.hp - CONTACT_DAMAGE
                /\ player.lives = frame.prev.lives
           ELSE player.lives = frame.prev.lives - 1

\* C21 witness: two enemies overlapped the player in the same pass and 10
\* hp were taken
C21_Witness ==
    /\ frame.op = "pass" /\ Cardinality(frame.contact) >= 2
    /\ ~frame.prev.is_invincible
    /\ player.hp = frame.prev.hp - CONTACT_DAMAGE

\* C30: at every difficulty level 1..10 an enemy of any type is spawned
\* with a speed in 1..8 and an hp in 1..100; the caps bound the scaled base
\* as well, so speed and hp are at most the cap times the multiplier of the
\* type.
C30_SpawnedSpeedAndHpInRange ==
    frame.op = "spawn" =>
        LET e == enemies[Len(enemies)]
            mult == GetEnemyMultipliers(e.enemy_type)
        IN /\ e.speed >= 1 /\ e.speed <= 8
           /\ e.hp >= 1 /\ e.hp <= 100
           /\ e.speed <= IntMul(max_enemy_speed, mult[1])
           /\ e.hp <= IntMul(max_enemy_hp, mult[2])

\* C30 witness: a tank spawned at level 10, where the scaled base speed is
\* over the cap
C30_Witness ==
    /\ frame.op = "spawn" /\ difficulty_level = MAX_DIFFICULTY
    /\ ENEMY_SPEED + (difficulty_level - 1) > max_enemy_speed
    /\ enemies[Len(enemies)].enemy_type = "tank"

(***************************************************************************)
(* The Game in outline: menus, settings, pause, game over and restart as   *)
(* in Spec, with the PLAYING frame reduced to what it does to the wave     *)
(* fields, the score and the life of the player.  The sprites are not      *)
(* followed: how many enemies are alive at the wave step, whether the      *)
(* frame credits a kill ("self.score += enemy.points", taken without the   *)
(* call of _maybe_spawn_powerup that follows it) and whether the frame's   *)
(* contact hit takes the last life are inputs of the frame.  Every         *)
(* base_difficulty can be played.                                          *)
(***************************************************************************)
MaxOutlineTime == 21000   \* the clock is explored up to this many ms
MaxOutlineScore == 20     \* kills are credited while the score stays within this
MaxOutlineDeathTime == 4000  \* the player dies while the clock is at most this

\* Game._execute_menu_option "Play" at any base_difficulty
OutlinePlay ==
    /\ process = "RUNNING" /\ state = "MENU"
    /\ menu_options[menu_selected + 1] = "Play"
    /\ StartGame

\* Game.update in PLAYING with a living player, in outline
OutlineFrame ==
    /\ process = "RUNNING" /\ state = "PLAYING"
    /\ player # NoPlayer /\ IsAlive(player)
    /\ now + FrameStep <= MaxOutlineTime
    /\ \E nEnemies \in 0..1, gain \in {0, EnemyPoints("basic")},
          dies \in BOOLEAN :
         LET t == now + FrameStep
             w1 == WaveStep(WaveState, t, nEnemies)
             spawn == SpawnDue(w1, t)
             w2 == IF spawn
                   THEN [w1 EXCEPT !.enemies_spawned = @ + 1,
                                   !.last_enemy_spawn = t]
                   ELSE w1
         IN /\ score + gain <= MaxOutlineScore
            /\ dies => t <= MaxOutlineDeathTime
            /\ now' = t
            /\ score' = score + gain
            /\ player' = IF dies
                         THEN PlayerTakeDamage(
                                  [player EXCEPT !.hp = CONTACT_DAMAGE,
                                                 !.lives = 1],
                                  CONTACT_DAMAGE, t)
                         ELSE player
            /\ wave' = w2.wave
            /\ difficulty_level' = w2.difficulty_level
            /\ enemies_in_wave' = w2.enemies_in_wave
            /\ enemies_spawned' = w2.enemies_spawned
            /\ wave_complete' = w2.wave_complete
            /\ wave_pause_timer' = w2.wave_pause_timer
            /\ last_enemy_spawn' = w2.last_enemy_spawn
            /\ pc' = pc
            /\ frame' = [NoFrame EXCEPT !.op = "outline",
                                        !.alive = nEnemies]
            /\ UNCHANGED << process, state, menu_selected, base_difficulty,
                            bullets, enemies, powerups, effects, best_score,
                            highscore_file >>

OutlineNext ==
    \/ \E d \in {-1, 1} : MenuMove(d)
    \/ OutlinePlay
    \/ ExecuteSettings
    \/ ExecuteQuit
    \/ MenuEscape
    \/ \E d \in {-1, 1} : SettingsAdjust(d)
    \/ SettingsBack
    \/ PlayingPause
    \/ PausedResume
    \/ PausedToMenu
    \/ GameOverRestart
    \/ GameOverToMenu
    \/ UpdateGameOver
    \/ OutlineFrame

OutlineSpec == Init /\ [][OutlineNext]_vars

(***************************************************************************)
(* The high-score file (save_manager.py)                                   *)
(*                                                                         *)
(* A text is a sequence of JSON tokens: the punctuation marks, "ws" for a  *)
(* run of white space, one token per digit, the literals true, false and   *)
(* null, and one token per string literal.  JsonLoads reads scalars and    *)
(* containers of scalars; FileTexts holds no text nested deeper.           *)
(***************************************************************************)
MaxSavedScore == 105

KeyLiteral == "\"high_score\""
StringValue ==
    (KeyLiteral :> "high_score") @@ ("\"score\"" :> "score")
        @@ ("\"ten\"" :> "ten")

DigitChars == << "0", "1", "2", "3", "4", "5", "6", "7", "8", "9" >>
Digits == { DigitChars[i] : i \in 1..10 }
DigitValue(c) == CHOOSE d \in 0..9 : DigitChars[d + 1] = c

\* what json.dump writes for an int, least significant digit first
RECURSIVE IntToTokensReversed(_)
IntToTokensReversed(n) ==
    IF n < 0 THEN << "-" >> \o IntToTokensReversed(0 - n)
    ELSE IF n < 10 THEN << DigitChars[n + 1] >>
    ELSE << DigitChars[(n % 10) + 1] >> \o IntToTokensReversed(n \div 10)
\* what json.dump writes for an int
RECURSIVE IntToTokens(_)
IntToTokens(n) ==
    IF n < 0 THEN << "-" >> \o IntToTokens(0 - n)
    ELSE IF n < 10 THEN << DigitChars[n + 1] >>
    ELSE IntToTokens(n \div 10) \o << DigitChars[(n % 10) + 1] >>

\* the value of a run of digits
RECURSIVE TokensToInt(_)
TokensToInt(toks) ==
    IF toks = << >> THEN 0
    ELSE TokensToInt(SubSeq(toks, 1, Len(toks) - 1)) * 10
             + DigitValue(toks[Len(toks)])

\* json.dump({"high_score": n}, f, ensure_ascii=False, indent=2)
JsonDumps(n) ==
    << "{", "ws", KeyLiteral, ":", "ws" >> \o IntToTokens(n) \o << "ws", "}" >>

\* the Python objects json.load returns, and its failure
JValue(type, n, str, members) ==
    [t |-> type, n |-> n, s |-> str, members |-> members]
JError == JValue("error", 0, "", << >>)
JInt(n) == JValue("int", n, "", << >>)
JDict(members) == JValue("dict", 0, "", members)

StripWs(text) == SelectSeq(text, LAMBDA c : c # "ws")
IsDigits(toks) == Len(toks) > 0 /\ \A i \in 1..Len(toks) : toks[i] \in Digits
\* JSON allows no leading zero
IsJsonInt(toks) == IsDigits(toks) /\ (Len(toks) = 1 \/ toks[1] # "0")

ParseNumber(toks) ==
    LET neg == toks[1] = "-"
        body == IF neg THEN Tail(toks) ELSE toks
    IN IF IsJsonInt(body)
       THEN JInt(IF neg THEN 0 - TokensToInt(body) ELSE TokensToInt(body))
       ELSE IF \E k \in 2..(Len(body) - 1) :
                   /\ body[k] = "."
                   /\ IsJsonInt(SubSeq(body, 1, k - 1))
                   /\ IsDigits(SubSeq(body, k + 1, Len(body)))
       THEN JValue("float", 0, "", << >>)
       ELSE JError

\* a scalar, or an empty container as the value of a member
ParseScalar(toks) ==
    IF toks = << >> THEN JError
    ELSE IF toks = << "true" >> THEN JValue("bool", 1, "", << >>)
    ELSE IF toks = << "false" >> THEN JValue("bool", 0, "", << >>)
    ELSE IF toks = << "null" >> THEN JValue("NoneType", 0, "", << >>)
    ELSE IF Len(toks) = 1 /\ toks[1] \in DOMAIN StringValue
    THEN JValue("str", 0, StringValue[toks[1]], << >>)
    ELSE IF toks = << "[", "]" >> THEN JValue("list", 0, "", << >>)
    ELSE IF toks = << "{", "}" >> THEN JDict(<< >>)
    ELSE IF toks[1] \in Digits \cup {"-"} THEN ParseNumber(toks)
    ELSE JError

RECURSIVE SplitCommas(_)
SplitCommas(toks) ==
    LET commas == { i \in 1..Len(toks) : toks[i] = "," }
    IN IF commas = {} THEN << toks >>
       ELSE LET k == MinOf(commas)
            IN << SubSeq(toks, 1, k - 1) >>
                   \o SplitCommas(SubSeq(toks, k + 1, Len(toks)))

\* string ":" value
ParseMember(chunk) ==
    IF Len(chunk) >= 3 /\ chunk[1] \in DOMAIN StringValue /\ chunk[2] = ":"
    THEN [key |-> StringValue[chunk[1]],
          val |-> ParseScalar(SubSeq(chunk, 3, Len(chunk)))]
    ELSE [key |-> "", val |-> JError]

ParseObject(inner) ==
    IF inner = << >> THEN JDict(<< >>)
    ELSE LET chunks == SplitCommas(inner)
             members == [i \in 1..Len(chunks) |-> ParseMember(chunks[i])]
         IN IF \E i \in 1..Len(members) : members[i].val.t = "error"
            THEN JError
            ELSE JDict(members)

ParseArray(inner) ==
    IF inner = << >> THEN JValue("list", 0, "", << >>)
    ELSE LET chunks == SplitCommas(inner)
         IN IF \E i \in 1..Len(chunks) : ParseScalar(chunks[i]).t = "error"
            THEN JError
            ELSE JValue("list", 0, "", << >>)

\* json.load: JError stands for the JSONDecodeError it raises
JsonLoads(text) ==
    LET toks == StripWs(text)
        inner == SubSeq(toks, 2, Len(toks) - 1)
    IN IF toks = << >> THEN JError
       ELSE IF Len(toks) >= 2 /\ toks[1] = "{" /\ toks[Len(toks)] = "}"
       THEN ParseObject(inner)
       ELSE IF Len(toks) >= 2 /\ toks[1] = "[" /\ toks[Len(toks)] = "]"
       THEN ParseArray(inner)
       ELSE ParseScalar(toks)

\* dict.get(key, default): the last member with the key is the one kept
DictGet(d, key, default) ==
    LET at == { i \in 1..Len(d.members) : d.members[i].key = key }
    IN IF at = {} THEN default
       ELSE d.members[CHOOSE i \in at : \A j \in at : j <= i].val

\* load_high_score: raised when an exception leaves the function, else the
\* value and the Python type of the object returned
LoadHighScore(f) ==
    LET zero == [raised |-> FALSE, ret |-> 0, type |-> "int"]
        data == JsonLoads(f.text)
        value == DictGet(data, "high_score", JInt(0))
    IN IF ~f.exists THEN zero
       \* except Exception: open() or json.load() raised
       ELSE IF ~f.readable \/ data.t = "error" THEN zero
       \* data.get outside the try: only a dict has the attribute
       ELSE IF data.t # "dict"
       THEN [raised |-> TRUE, ret |-> 0, type |-> "none"]
       \* isinstance(score, int) holds for bool as well
       ELSE IF value.t \in {"int", "bool"} /\ value.n >= 0
       THEN [raised |-> FALSE, ret |-> value.n, type |-> value.t]
       ELSE zero

\* save_high_score: the file after the call.  ok tells whether open() and
\* the writes succeed when the path is writable; when a write fails after
\* open() has truncated the file, the first cut tokens are in the file
SaveHighScore(f, n, ok, cut) ==
    LET clamped == IF n < 0 THEN 0 ELSE n
        text == JsonDumps(clamped)
    IN IF ~f.writable THEN f
       ELSE [exists |-> TRUE,
             readable |-> IF f.exists THEN f.readable ELSE TRUE,
             writable |-> TRUE,
             text |-> IF ok THEN text ELSE SubSeq(text, 1, cut)]

\* the texts highscore.json starts with
FileTexts ==
    { << >>,
      << "{" >>,
      << "{", KeyLiteral, ":", "7" >>,
      << "{", KeyLiteral, ":", "0", "7", "}" >>,
      << "[", "]" >>,
      << "[", "4", ",", "2", "]" >>,
      << "5" >>,
      << "null" >>,
      << "\"ten\"" >>,
      << "{", "}" >>,
      << "{", "\"score\"", ":", "7", "}" >>,
      << "{", KeyLiteral, ":", "-", "4", "}" >>,
      << "{", KeyLiteral, ":", "2", ".", "5", "}" >>,
      << "{", KeyLiteral, ":", "\"ten\"", "}" >>,
      << "{", KeyLiteral, ":", "null", "}" >>,
      << "{", KeyLiteral, ":", "true", "}" >>,
      << "{", KeyLiteral, ":", "[", "]", "}" >>,
      << "{", KeyLiteral, ":", "4", "2", "}" >>,
      << "{", "ws", KeyLiteral, ":", "ws", "4", "2", "ws", "}" >>,
      << "{", KeyLiteral, ":", "1", ",", KeyLiteral, ":", "2", "}" >>,
      << "{", "\"score\"", ":", "1", ",", KeyLiteral, ":", "9", "}" >> }

\* the states of highscore.json before the first call
FileStates ==
    { [exists |-> FALSE, readable |-> TRUE, writable |-> w, text |-> << >>] :
          w \in BOOLEAN }
    \cup { [exists |-> TRUE, readable |-> TRUE, writable |-> TRUE,
            text |-> x] : x \in FileTexts }
    \cup { [exists |-> TRUE, readable |-> r, writable |-> w,
            text |-> JsonDumps(42)] : r, w \in BOOLEAN }

SavedScores == {-40, -1, 0, 7, 12, 42, MaxSavedScore}

SaveInit ==
    /\ process = "RUNNING"
    /\ now = 0
    /\ state = "MENU"
    /\ menu_selected = 0
    /\ base_difficulty = 1
    /\ difficulty_level = 1
    /\ player = NoPlayer
    /\ bullets = << >>
    /\ enemies = << >>
    /\ powerups = << >>
    /\ effects = << >>
    /\ score = 0
    /\ best_score = 0
    /\ wave = 1
    /\ enemies_in_wave = 5
    /\ enemies_spawned = 0
    /\ wave_complete = FALSE
    /\ wave_pause_timer = 0
    /\ last_enemy_spawn = 0
    /\ highscore_file \in FileStates
    /\ frame = NoFrame
    /\ pc = "events"

\* a call of load_high_score(); an exception that leaves it ends the process
CallLoad ==
    /\ process = "RUNNING"
    /\ LET r == LoadHighScore(highscore_file)
       IN /\ pc' = pc
          /\ frame' = [NoFrame EXCEPT
                         !.op = "load",
                         !.io = [NoIo EXCEPT !.raised = r.raised,
                                             !.ret = r.ret,
                                             !.type = r.type]]
          /\ process' = IF r.raised THEN "CRASHED" ELSE "RUNNING"
    /\ UNCHANGED << now, player, gameVars, highscore_file >>

\* a call of save_high_score(n)
CallSave(n) ==
    /\ process = "RUNNING"
    /\ \E ok \in BOOLEAN, cut \in 0..(Len(JsonDumps(0)) - 1) :
          /\ ok => cut = 0
          /\ highscore_file' = SaveHighScore(highscore_file, n, ok, cut)
          /\ pc' = pc
          /\ frame' = [NoFrame EXCEPT
                         !.op = "save",
                         !.io = [NoIo EXCEPT
                                   !.arg = n,
                                   !.wrote = highscore_file.writable /\ ok]]
    /\ UNCHANGED << process, now, player, gameVars >>

SaveNext ==
    \/ CallLoad
    \/ \E n \in SavedScores : CallSave(n)

SaveSpec == SaveInit /\ [][SaveNext]_vars

(***************************************************************************)
(* Properties of the high-score file (SaveSpec)                            *)
(***************************************************************************)
\* the file states for which the return value is said to be 0: missing,
\* unreadable, not valid JSON, valid JSON that is no object, an object
\* without the key, a value that is no integer or is negative
ZeroCase(f) ==
    LET data == JsonLoads(f.text)
        value == DictGet(data, "high_score", JError)
    IN \/ ~f.exists \/ ~f.readable
       \/ data.t # "dict"
       \/ value.t # "int"
       \/ value.n < 0

\* C14: load_high_score() never raises and returns an integer >= 0, which
\* is 0 when the file is missing, unreadable, not valid JSON, no JSON
\* object, has no score key, or holds a score that is no integer or is
\* negative.
C14_LoadNeverRaises ==
    frame.op = "load" =>
        /\ ~frame.io.raised
        /\ frame.io.ret >= 0
        /\ ZeroCase(highscore_file) => frame.io.ret = 0

\* C15: save_high_score(N) that wrote the file, followed by
\* load_high_score(), returns N when N >= 0 and 0 when N < 0.
C15_RoundTrip ==
    [][(frame.op = "save" /\ frame.io.wrote /\ frame'.op = "load") =>
          /\ ~frame'.io.raised
          /\ frame'.io.ret = Max2(frame.io.arg, 0) ]_vars

\* C15 (amended): as C15, when the file can be opened for reading.
C15_RoundTripWhenReadable ==
    [][(frame.op = "save" /\ frame.io.wrote /\ frame'.op = "load"
          /\ highscore_file.readable) =>
          /\ ~frame'.io.raised
          /\ frame'.io.type = "int"
          /\ frame'.io.ret = Max2(frame.io.arg, 0) ]_vars

\* C15 witness: a load has returned the score a save has written over a
\* file that held another text
C15_Witness ==
    /\ frame.op = "load" /\ ~frame.io.raised
    /\ frame.io.ret = MaxSavedScore
    /\ highscore_file.text = JsonDumps(MaxSavedScore)

(***************************************************************************)
(* Properties of the wave cycle (Spec)                                     *)
(***************************************************************************)
\* C12: a frame sets the wave-complete flag if and only if, at its wave
\* step, the flag was clear, the number spawned was at least the target and
\* no hostile remained; so it is never set while a hostile is alive or
\* before the target count has been spawned.
C12_WaveCompleteIff ==
    [][frame'.op = "frame" =>
          ((~wave_complete /\ wave_complete')
             <=> (/\ ~wave_complete
                  /\ enemies_spawned >= enemies_in_wave
                  /\ frame'.alive = 0)) ]_vars

\* C12 witness: a frame has just set the flag, with the whole wave spawned
\* and no hostile left at its wave step
C12_Witness ==
    /\ frame.op = "frame" /\ frame.alive = 0
    /\ wave_complete /\ wave_pause_timer = now
    /\ enemies_spawned = enemies_in_wave

\* C13: with the flag set, a frame starts the next wave if and only if its
\* timestamp is at least the pause start + 3000: then wave goes up by one,
\* spawned is 0, target and difficulty level are recomputed for the new wave
\* and the flag is cleared; otherwise the flag and the wave stay as they are.
C13_NextWaveAfterPause ==
    [][frame'.op = "frame" =>
          /\ wave_complete =>
               IF now' - wave_pause_timer >= 3000
               THEN /\ wave' = wave + 1
                    /\ enemies_spawned' = 0
                    /\ enemies_in_wave' = 5 + (wave' - 1) * 2
                    /\ difficulty_level' =
                           Min2(base_difficulty + wave' \div 3, 10)
                    /\ ~wave_complete'
               ELSE /\ wave_complete'
                    /\ UNCHANGED << wave, enemies_spawned, enemies_in_wave,
                                    difficulty_level, wave_pause_timer >>
          /\ ~wave_complete => wave' = wave ]_vars

\* C13 witness: a frame has just started wave 2, with target 7
C13_Witness ==
    /\ frame.op = "frame"
    /\ wave = 2 /\ enemies_in_wave = 7 /\ enemies_spawned = 0
    /\ ~wave_complete
    /\ now = wave_pause_timer + 3000

(***************************************************************************)
(* Properties of starting and of the frozen modes (Spec)                   *)
(***************************************************************************)
\* C18: right after a game is started, from the menu or by a restart, the
\* four sprite groups are empty, score is 0, wave is 1 with target 5 and
\* nothing spawned, the wave-complete flag is clear, the difficulty level is
\* base_difficulty, the player is new (full hp, starting lives, no effect,
\* not invincible) and the state is PLAYING.
C18_StartGameResets ==
    frame.op = "start" =>
        /\ bullets = << >> /\ enemies = << >>
        /\ powerups = << >> /\ effects = << >>
        /\ score = 0
        /\ wave = 1 /\ enemies_in_wave = 5 /\ enemies_spawned = 0
        /\ ~wave_complete
        /\ difficulty_level = base_difficulty
        /\ player # NoPlayer
        /\ player.hp = PLAYER_MAX_HP /\ player.max_hp = PLAYER_MAX_HP
        /\ player.lives = PLAYER_START_LIVES
        /\ player.active_effects = {}
        /\ ~player.is_invincible
        /\ state = "PLAYING"

\* C18 witness: a game has been started after an earlier session went on
\* until the player was dead
C18_Witness ==
    /\ frame.op = "start" /\ state = "PLAYING"
    /\ now >= 76000

\* C19: while the state is PAUSED or SETTINGS, no update and no key changes
\* the player, a sprite group, the score or the wave fields; only the state
\* can change, and base_difficulty in SETTINGS.
C19_FrozenWhilePausedOrSettings ==
    [][(state \in {"PAUSED", "SETTINGS"} /\ process' = "RUNNING") =>
          /\ UNCHANGED << player, bullets, enemies, powerups, effects, score,
                          wave, enemies_in_wave, enemies_spawned,
                          wave_complete, wave_pause_timer, last_enemy_spawn,
                          difficulty_level >>
          /\ state = "PAUSED" => UNCHANGED base_difficulty ]_vars

\* C19 witness: K_SPACE or a movement key was pressed in PAUSED with a
\* bullet in flight
C19_Witness ==
    /\ state = "PAUSED" /\ frame.op = "key"
    /\ bullets # << >>
    /\ player # NoPlayer /\ player.last_shot_time > 0

(***************************************************************************)
(* Properties of the Game in outline (OutlineSpec)                         *)
(***************************************************************************)
\* C11: while a session is in progress (PLAYING or PAUSED) the wave target
\* is 5 + (wave - 1) * 2 and the difficulty level is
\* min(base_difficulty + wave \div 3, 10).
C11_WaveTargetAndDifficulty ==
    state \in {"PLAYING", "PAUSED"} =>
        /\ enemies_in_wave = 5 + (wave - 1) * 2
        /\ difficulty_level = Min2(base_difficulty + wave \div 3, 10)

\* C11 witness: a session has reached wave 3 and its difficulty level has
\* gone up by one
C11_Witness ==
    /\ state = "PLAYING"
    /\ wave = 3
    /\ enemies_in_wave = 9
    /\ difficulty_level = base_difficulty + 1

\* C16: when GAME_OVER is entered best_score becomes the larger of the
\* previous best_score and the score; in GAME_OVER best_score >= score.
C16_BestScoreAtGameOver ==
    [][ /\ state' = "GAME_OVER" => best_score' >= score'
        /\ (state # "GAME_OVER" /\ state' = "GAME_OVER") =>
               /\ best_score' = Max2(best_score, score)
               /\ score' = score ]_vars

\* C16 witness: GAME_OVER was entered with a score above 0 and below the
\* best_score of an earlier session, which is kept
C16_Witness ==
    /\ state = "GAME_OVER" /\ frame.op = "gameover"
    /\ score > 0 /\ best_score > score

\* C17: no step of the running game decreases best_score.
C17_BestScoreNeverDecreases ==
    [][process' = "RUNNING" => best_score' >= best_score]_vars

\* C17 witness: a game was started again with the best_score of an earlier
\* session kept
C17_Witness ==
    /\ state = "PLAYING" /\ frame.op = "start"
    /\ score = 0 /\ best_score > 0

\* C20: base_difficulty stays within 1..10 whatever settings keys are
\* pressed, and the difficulty level of a session stays within 1..10.
C20_DifficultyInRange ==
    /\ base_difficulty >= MIN_DIFFICULTY /\ base_difficulty <= MAX_DIFFICULTY
    /\ difficulty_level >= 1 /\ difficulty_level <= 10

\* C20 witness: at base_difficulty 10 the session has reached wave 3, where
\* base_difficulty + wave \div 3 is 11, and the level is 10
C20_Witness ==
    /\ state = "PLAYING"
    /\ base_difficulty = MAX_DIFFICULTY
    /\ base_difficulty + wave \div 3 > 10
    /\ difficulty_level = 10

(***************************************************************************)
(* Properties of the order of a frame (PhaseSpec)                          *)
(***************************************************************************)
\* C24: a PLAYING frame goes through its steps in one order: the movement
\* input, the update of the player's timers and effects, the updates of
\* the bullets, enemies, power-ups and effects, the update of the waves and
\* the difficulty with the spawn, and the collisions; each kind of change
\* is made in its step only, and events are handled only between frames.
C24_FrameOrder ==
    [][ /\ pc' # pc =>
             <<pc, pc'>> \in { <<"events", "input">>, <<"input", "player">>,
                               <<"player", "sprites">>, <<"sprites", "waves">>,
                               <<"waves", "collisions">>,
                               <<"collisions", "events">> }
        /\ now' # now => pc = "events" /\ pc' = "input"
        /\ (player'.x # player.x \/ player'.y # player.y) => pc = "input"
        /\ (player.is_invincible /\ ~player'.is_invincible) => pc = "player"
        /\ (/\ Len(enemies') = Len(enemies)
            /\ \E i \in 1..Len(enemies) :
                  enemies'[i].frames > enemies[i].frames) => pc = "sprites"
        /\ (/\ Len(bullets') = Len(bullets)
            /\ \E i \in 1..Len(bullets) :
                  bullets'[i].frames > bullets[i].frames) => pc = "sprites"
        /\ (enemies_spawned' # enemies_spawned \/ wave' # wave
            \/ wave_complete' # wave_complete
            \/ Len(enemies') > Len(enemies)) => pc = "waves"
        /\ (player'.hp # player.hp \/ player'.lives # player.lives
            \/ score' # score \/ process' # process
            \/ (~player.is_invincible /\ player'.is_invincible)
            \/ (/\ Len(enemies') = Len(enemies)
                /\ \E i \in 1..Len(enemies) : enemies'[i].hp < enemies[i].hp))
              => pc = "collisions"
        /\ (state' # state \/ Len(bullets') > Len(bullets)
            \/ player'.last_shot_time # player.last_shot_time)
              => pc = "events" /\ pc' = "events" ]_vars

\* C24 witness: a frame has run to its end in which the player moved, an
\* enemy aged by the sprite updates was hit by a bullet and the player was
\* hit by an enemy, after a spawn
C24_Witness ==
    /\ pc = "events" /\ frame.op = "collide"
    /\ frame.damaged /\ Len(frame.hits) > 0
    /\ player.x # StartPlayer.x
    /\ enemies_spawned >= 2

(***************************************************************************)
(* Properties of the movement (MoveSpec)                                   *)
(***************************************************************************)
\* C28: whatever keys are held, after Player.handle_input the rectangle of
\* the player is inside the screen, 0 <= x <= 800 - 40 and
\* 0 <= y <= 600 - 40, and x and y have each changed by at most the speed
\* (5) in the frame.
C28_PlayerStaysOnScreen ==
    /\ player.x >= 0 /\ player.x <= 800 - 40
    /\ player.y >= 0 /\ player.y <= 600 - 40
    /\ frame.op = "input" =>
          /\ player.x - frame.prev.x \in -5..5
          /\ player.y - frame.prev.y \in -5..5

\* C28 witness: the player is in the bottom right corner of the screen and
\* a move to the right and down has left it there
C28_Witness ==
    /\ frame.op = "input"
    /\ player.x = 800 - 40 /\ player.y = 600 - 40
    /\ frame.prev.x = player.x /\ frame.prev.y = player.y

(***************************************************************************)
(* Properties of the spawn timing (OutlineSpec)                            *)
(***************************************************************************)
\* C29: a PLAYING frame spawns at most one enemy, and only when at least
\* max(2000 - (difficulty_level - 1) * 150, min_spawn_interval) ms have
\* passed since the last spawn or the start of the session or wave; the
\* frame that ends the pause between waves spawns none.
C29_SpawnTiming ==
    [][ frame'.op = "outline" =>
          LET leaving == wave_complete /\ ~wave_complete'
              before == IF wave' # wave THEN 0 ELSE enemies_spawned
              interval == Max2(ENEMY_SPAWN_INTERVAL
                                   - (difficulty_level' - 1) * 150,
                               min_spawn_interval)
          IN /\ enemies_spawned' \in {before, before + 1}
             /\ enemies_spawned' = before + 1 =>
                    /\ now' - last_enemy_spawn >= interval
                    /\ ~wave_complete /\ ~wave_complete'
             /\ leaving => wave' = wave + 1 /\ enemies_spawned' = 0
             /\ wave' # wave => leaving ]_vars

\* C29 witness: an enemy has just been spawned in the second wave or later
C29_Witness ==
    /\ frame.op = "outline" /\ wave >= 2
    /\ enemies_spawned >= 1 /\ last_enemy_spawn = now

(***************************************************************************)
(* Properties of the enemy types (PassSpec)                                *)
(***************************************************************************)
\* the places of the types in the claimed orders of speed and of hp
SpeedRank(enemy_type) ==
    IF enemy_type = "tank" THEN 1
    ELSE IF enemy_type = "heavy" THEN 2
    ELSE IF enemy_type = "basic" THEN 3
    ELSE 4

HpRank(enemy_type) ==
    IF enemy_type = "fast" THEN 1
    ELSE IF enemy_type = "basic" THEN 2
    ELSE IF enemy_type = "heavy" THEN 3
    ELSE 4

\* C31: among the enemies spawned at one difficulty level in 1..10 the
\* speeds are strictly ordered tank < heavy < basic < fast and the hps
\* strictly ordered fast < basic < heavy < tank (stated for the types that
\* _choose_enemy_type can choose at the level and wave).
C31_TypesStrictlyOrdered ==
    \A i, j \in 1..Len(enemies) :
      ({enemies[i].enemy_type, enemies[j].enemy_type}
          \subseteq ChooseEnemyType(difficulty_level, wave)) =>
        /\ SpeedRank(enemies[i].enemy_type) < SpeedRank(enemies[j].enemy_type)
              => enemies[i].speed < enemies[j].speed
        /\ HpRank(enemies[i].enemy_type) < HpRank(enemies[j].enemy_type)
              => enemies[i].max_hp < enemies[j].max_hp

(***************************************************************************)
(* Properties of the lethal hit and of the end of a session (Spec,         *)
(* OutlineSpec)                                                            *)
(***************************************************************************)
\* C33: a frame in which a bullet kills an enemy runs to its end: the
\* points are added, the drop roll is made, the bullet is removed and no
\* exception ends the process.
C33_LethalHitCompletes ==
    frame.op = "frame" =>
        \A i \in 1..Len(frame.hits) :
            frame.hits[i].dead =>
                /\ process = "RUNNING"
                /\ frame.hits[i].gain = frame.hits[i].points
                /\ frame.hits[i].rolls = 1
                /\ frame.hits[i].consumed

(***************************************************************************)
(* Properties of the pause (PauseSpec)                                     *)
(***************************************************************************)
\* C32: the time spent in PAUSED does not count: over every step taken while
\* PAUSED, resuming included, what remains of the invincibility, of every
\* timed effect, of the pause between the waves and of the wait for the
\* next spawn stays the same.
C32_PauseStopsTheTimers ==
    [][ (state = "PAUSED" /\ state' \in {"PAUSED", "PLAYING"}) =>
          /\ player.is_invincible =>
                player'.invincibility_timer + INVINCIBILITY_DURATION - now'
                  = player.invincibility_timer + INVINCIBILITY_DURATION - now
          /\ \A e \in player.active_effects :
                \E f \in player'.active_effects :
                    f[1] = e[1] /\ f[2] - now' = e[2] - now
          /\ wave_complete =>
                wave_pause_timer' + wave_pause_duration - now'
                  = wave_pause_timer + wave_pause_duration - now
          /\ ~wave_complete =>
                last_enemy_spawn' + SpawnInterval(difficulty_level') - now'
                  = last_enemy_spawn + SpawnInterval(difficulty_level) - now
      ]_vars

C36_ModeTransitions ==
    [][ process' = "RUNNING" =>
          /\ state' # state =>
                <<state, state'>> \in
                    { <<"MENU", "PLAYING">>, <<"MENU", "SETTINGS">>,
                      <<"SETTINGS", "MENU">>, <<"PLAYING", "PAUSED">>,
                      <<"PLAYING", "GAME_OVER">>, <<"PAUSED", "PLAYING">>,
                      <<"PAUSED", "MENU">>, <<"GAME_OVER", "PLAYING">>,
                      <<"GAME_OVER", "MENU">> }
          /\ (state \in {"PLAYING", "PAUSED"} \/ state' \in {"PLAYING", "PAUSED"})
                => base_difficulty' = base_difficulty ]_vars

\* C36 witness: a session started at a base_difficulty chosen in the
\* settings has been paused
C36_Witness ==
    /\ state = "PAUSED" /\ base_difficulty > 1
    /\ player # NoPlayer /\ IsAlive(player)

(***************************************************************************)
(* Properties of the wave counters (OutlineSpec)                           *)
(***************************************************************************)
\* C37: in every state 0 <= enemies_spawned <= enemies_in_wave.
C37_SpawnedWithinTarget ==
    enemies_spawned >= 0 /\ enemies_spawned <= enemies_in_wave

\* C37 witness: the target of the wave is reached, an enemy is still alive
\* and the spawn interval has passed again without a spawn
C37_Witness ==
    /\ state = "PLAYING" /\ frame.op = "outline" /\ frame.alive > 0
    /\ ~wave_complete /\ enemies_spawned = enemies_in_wave
    /\ now - last_enemy_spawn >= SpawnInterval(difficulty_level)

(***************************************************************************)
(* Properties of the pause between the waves (Spec)                        *)
(***************************************************************************)
\* C38: while wave_complete is set, Game.enemies is empty and
\* enemies_spawned is the target of the wave, and no enemy is spawned from
\* one state of the pause to the next.
C38_NothingAliveInThePause ==
    /\ [](wave_complete =>
             enemies = << >> /\ enemies_spawned = enemies_in_wave)
    /\ [][(wave_complete /\ wave_complete') =>
             enemies' = << >> /\ enemies_spawned' = enemies_spawned]_vars

\* C38 witness: a frame of the pause at which the spawn interval has passed
\* since the last spawn
C38_Witness ==
    /\ process = "RUNNING" /\ state = "PLAYING" /\ wave_complete
    /\ frame.op = "frame" /\ now > wave_pause_timer
    /\ now - last_enemy_spawn >= SpawnInterval(difficulty_level)

(***************************************************************************)
(* Properties of the progress of the waves (LiveSpec)                      *)
(***************************************************************************)
\* C39: while frames keep coming, the state stays PLAYING and the player
\* stays alive, the wave counter eventually increases: the first wave is
\* eventually followed by the second.
C39_WaveEventuallyIncreases ==
    (wave = 1) ~> (wave > 1 \/ state # "PLAYING" \/ ~IsAlive(player))

\* the same with the end of the process as a way out
C39_UnlessTheProcessEnds ==
    (wave = 1) ~> (wave > 1 \/ state # "PLAYING" \/ ~IsAlive(player)
                   \/ process # "RUNNING")

====
